---------------------------- MODULE Spec2Model ----------------------------
(***************************************************************************)
(* pptx_linguistic_tool: slide text extraction                             *)
(* (core/extraction/slide_text_extractor.py) and hybrid reintegration      *)
(* (core/reintegration/reintegrator_all.py), as a state machine over a     *)
(* container (the .pptx zip), the LineFile directory and the output        *)
(* container; and the line-by-line translation of LineFiles                *)
(* (core/translation/translator_interface.py, utils/cleanup.py).           *)
(*                                                                         *)
(* Text is a sequence of characters.  A character is a one-token string:   *)
(* "a", "b", "z", "n", "t", digits, and the named characters               *)
(*   "LF"  U+000A   "TAB" U+0009   "BSL" backslash   "SP" space            *)
(*   "BUL" a bullet character      "COL" colon                             *)
(***************************************************************************)
EXTENDS Integers, Sequences, FiniteSets, TLC

(***************************************************************************)
(* Bounds of the model.                                                    *)
(***************************************************************************)
MaxParas == 2       \* paragraphs in the text body of a content slide
MaxShapes == 2      \* top-level children of the shape tree of a layout slide
MaxLines == 7       \* lines of an edited LineFile
MaxSlideNo == 3     \* highest slide index of a deck
MaxCount == 22      \* n_runs, n_lines given to _choose_method
MaxLvl == 10        \* highest lvl attribute of a paragraph
MaxRuns == 2        \* times an operation is run on the same inputs
MaxSrcLines == 3    \* lines of a LineFile given to translate_text_files
MaxLineLen == 4     \* characters of a line given to _split_keep_seps

(***************************************************************************)
(* Sequence helpers.                                                       *)
(***************************************************************************)
RECURSIVE Flatten(_)
Flatten(ss) == IF ss = <<>> THEN <<>> ELSE Head(ss) \o Flatten(Tail(ss))

RECURSIVE Repeat(_, _)
Repeat(x, n) == IF n <= 0 THEN <<>> ELSE <<x>> \o Repeat(x, n - 1)

Abs(a) == IF a >= 0 THEN a ELSE 0 - a

(***************************************************************************)
(* Python string operations used by the code.                              *)
(***************************************************************************)
\* the line written as it is
KeepLF(s) == s

\* s.replace("\n", "\\n")                      slide_text_extractor.py:190
RECURSIVE ReplaceLF(_)
ReplaceLF(s) ==
    IF s = <<>> THEN <<>>
    ELSE (IF Head(s) = "LF" THEN <<"BSL", "n">> ELSE <<Head(s)>>)
         \o ReplaceLF(Tail(s))

\* "\n".join(lines)                            slide_text_extractor.py:190
RECURSIVE JoinLF(_)
JoinLF(lines) ==
    IF lines = <<>> THEN <<>>
    ELSE IF Len(lines) = 1 THEN lines[1]
    ELSE lines[1] \o <<"LF">> \o JoinLF(Tail(lines))

\* str.splitlines(): the text is cut at every line boundary; the piece after
\* the last boundary is a line only if it is not empty.
RECURSIVE SplitLinesFrom(_, _)
SplitLinesFrom(s, buf) ==
    IF s = <<>> THEN (IF buf = <<>> THEN <<>> ELSE <<buf>>)
    ELSE IF Head(s) = "LF" THEN <<buf>> \o SplitLinesFrom(Tail(s), <<>>)
    ELSE SplitLinesFrom(Tail(s), Append(buf, Head(s)))

splitlines(s) == SplitLinesFrom(s, <<>>)

\* an anchor seen in every text
AnyTextNonEmpty(s) == TRUE

\* str.strip() is non-empty: some character is not whitespace
StripNonEmpty(s) == \E i \in 1..Len(s) : s[i] \notin {"SP", "LF", "TAB"}


(***************************************************************************)
(* The slide part as a tree.                                               *)
(*                                                                         *)
(* An element is a record [k, s, pres, ch]:                                *)
(*   k = "t"    <a:t>; s its text, pres its xml:space="preserve"           *)
(*   k = "br"   <a:br/>          k = "tab"  <a:tab/>                       *)
(*   k = "mt"   <m:t>; s its text                                          *)
(*   k = "r"    <a:r>;   ch its children ("t", "br", "tab", "m")           *)
(*   k = "fld"  <a:fld>; ch its children                                   *)
(*   k = "m"    a formula subtree (m:oMathPara / m:oMath); ch holds its    *)
(*              "mt" units and, as "t", every <a:r><a:t> nested in it      *)
(* A paragraph <a:p> is [bu, items]: bu the char of <a:pPr><a:buChar>, ""  *)
(* when it has none; items its children.                                   *)
(* A node of the shape tree is [tag, ph, paras, kids]:                     *)
(*   tag = "sp"            <p:sp>, ph the type of its <p:ph> ("" none),    *)
(*                         paras the <a:p> of its <p:txBody>               *)
(*   tag = "graphicFrame"  <p:graphicFrame> (a table), paras the <a:p> of  *)
(*                         its cells' <a:txBody>, in document order        *)
(*   tag = "grpSp"         <p:grpSp>, kids its children                    *)
(*   tag = "other"         any other element, kids its children            *)
(* A slide part is [ok, spTree]: ok iff its bytes parse as XML, spTree the *)
(* children of <p:cSld><p:spTree>.                                         *)
(***************************************************************************)
El(k, s, pres, ch) == [k |-> k, s |-> s, pres |-> pres, ch |-> ch]
T(s) == El("t", s, FALSE, <<>>)
TP(s) == El("t", s, TRUE, <<>>)
BR == El("br", <<>>, FALSE, <<>>)
TAB == El("tab", <<>>, FALSE, <<>>)
MT(s) == El("mt", s, FALSE, <<>>)
R(s) == El("r", <<>>, FALSE, <<T(s)>>)
RC(ch) == El("r", <<>>, FALSE, ch)
FLD(s) == El("fld", <<>>, FALSE, <<T(s)>>)
M(ch) == El("m", <<>>, FALSE, ch)

Para(bu, items) == [bu |-> bu, items |-> items]
Sp(ph, paras) == [tag |-> "sp", ph |-> ph, paras |-> paras, kids |-> <<>>]
Frame(paras) == [tag |-> "graphicFrame", ph |-> "", paras |-> paras, kids |-> <<>>]
Grp(kids) == [tag |-> "grpSp", ph |-> "", paras |-> <<>>, kids |-> kids]
Other(kids) == [tag |-> "other", ph |-> "", paras |-> <<>>, kids |-> kids]
Slide(spTree) == [ok |-> TRUE, spTree |-> spTree]
Malformed == [ok |-> FALSE, spTree |-> <<>>]

\* _SKIP_PH_TYPES                              slide_text_extractor.py:31
SKIP_PH_TYPES == {"dt", "sldNum", "ftr", "hdr"}

\* Every node of the tree in document order, with its path from the shape
\* tree (the index of the child taken at every level).
RECURSIVE AllNodes(_, _)
AllNodes(nodes, prefix) ==
    Flatten([i \in 1..Len(nodes) |->
        <<[path |-> Append(prefix, i), n |-> nodes[i]]>>
        \o AllNodes(nodes[i].kids, Append(prefix, i))])

\* The paragraphs of one node, as locators [path, p]
ParasOf(pn) == [j \in 1..Len(pn.n.paras) |-> [path |-> pn.path, p |-> j]]

RECURSIVE NodeAt(_, _)
NodeAt(nodes, path) ==
    IF Len(path) = 1 THEN nodes[path[1]]
    ELSE NodeAt(nodes[path[1]].kids, Tail(path))

ParaAt(slide, loc) == NodeAt(slide.spTree, loc.path).paras[loc.p]

(***************************************************************************)
(* slide_text_extractor.py                                                 *)
(***************************************************************************)
\* the text one child of a run appends, m:t excluded (lines 45-52)
RunChildText(c) ==
    CASE c.k = "t" -> c.s
      [] c.k = "tab" -> <<"TAB">>
      [] c.k = "br" -> <<"LF">>
      [] OTHER -> <<>>

\* the text of every m:t below an element, in document order (line 55)
RECURSIVE MathTextBelow(_)
MathTextBelow(e) ==
    Flatten([i \in 1..Len(e.ch) |->
        IF e.ch[i].k = "mt" THEN e.ch[i].s ELSE MathTextBelow(e.ch[i])])

_text_from_run(a_r) ==
    Flatten([i \in 1..Len(a_r.ch) |-> RunChildText(a_r.ch[i])])
    \o MathTextBelow(a_r)

NoSpaceAfterBullet == {"COL", "SEMI", "DOT", "COMMA", "RPAR", "DASH", "EMDASH", "MIDDOT", "SP"}

\* lines 96-115; the bullet is the explicit buChar (inheritance from the
\* list style is resolved into bu by the caller)
ParaBody(p_elem) ==
    Flatten([i \in 1..Len(p_elem.items) |->
        LET c == p_elem.items[i] IN
        CASE c.k \in {"r", "fld"} -> _text_from_run(c)
          [] c.k = "br" -> <<"LF">>
          [] c.k = "tab" -> <<"TAB">>
          [] c.k = "mt" -> c.s
          [] OTHER -> <<>>])

_extract_paragraph_text(p_elem) ==
    LET body == ParaBody(p_elem) IN
    IF p_elem.bu # ""
    THEN <<p_elem.bu>>
         \o (IF body # <<>> /\ body[1] \in NoSpaceAfterBullet THEN <<>> ELSE <<"SP">>)
         \o body
    ELSE body

\* the list-style level taken as the paragraph level itself
lvl_name_unshifted(lvl) == IF lvl < 1 THEN 1 ELSE IF lvl > 9 THEN 9 ELSE lvl

\* line 89: the level of the list style consulted, max(1, min(9, lvl + 1))
lvl_name(lvl) == IF lvl + 1 < 1 THEN 1 ELSE IF lvl + 1 > 9 THEN 9 ELSE lvl + 1

\* lines 69-93.  pPr is [present, buChar, lvl]: whether the paragraph has an
\* a:pPr, the char of its a:buChar ("" when the element or the attribute is
\* missing or empty), and its lvl attribute [k, v] with k "absent", "empty",
\* "bad" (not an integer) or "int".  lstStyle is [present, lvl]: whether the
\* text body has an a:lstStyle, and for each of a:lvl1pPr..a:lvl9pPr the
\* char of its a:buChar ("" when any of them is missing or empty).
ResolveBullet(pPr, lstStyle) ==
    LET explicit == IF pPr.present THEN pPr.buChar ELSE ""
        lvl == IF pPr.present /\ pPr.lvl.k = "int" THEN pPr.lvl.v ELSE 0
    IN IF explicit # "" THEN explicit
       ELSE IF lstStyle.present THEN lstStyle.lvl[lvl_name(lvl)]
       ELSE ""

\* lines 126-157: the text bodies are all a:txBody (table cells) in document
\* order, then all p:txBody (shapes) in document order; a body owned by a
\* p:sp whose p:ph has a skipped type is left out; every a:p child of a
\* retained body is emitted.  The result is the sequence of locators.
_iter_all_paragraphs_from_slide_xml(slide) ==
    LET all == AllNodes(slide.spTree, <<>>)
        a_bodies == SelectSeq(all, LAMBDA pn : pn.n.tag = "graphicFrame")
        p_bodies == SelectSeq(all, LAMBDA pn : pn.n.tag = "sp")
        tx_bodies == a_bodies \o p_bodies
        kept == SelectSeq(tx_bodies,
                    LAMBDA pn : ~(pn.n.tag = "sp" /\ pn.n.ph \in SKIP_PH_TYPES))
    IN Flatten([i \in 1..Len(kept) |-> ParasOf(kept[i])])

\* line 186: the texts yielded for one slide
SlideLines(slide) ==
    LET ps == _iter_all_paragraphs_from_slide_xml(slide) IN
    [i \in 1..Len(ps) |-> _extract_paragraph_text(ParaAt(slide, ps[i]))]

\* line 190: the content written to slide<i>.txt
LineFileContent(lines) == JoinLF([i \in 1..Len(lines) |-> ReplaceLF(lines[i])])

(***************************************************************************)
(* reintegrator_all.py: helpers and collectors                             *)
(***************************************************************************)
\* A LineFile directory maps a slide index to the content of slide<i>.txt;
\* an index outside its domain has no file.
_read_lines(txt_dir, slide_num) ==
    IF slide_num \notin DOMAIN txt_dir THEN <<>>
    ELSE splitlines(txt_dir[slide_num])

\* the line cut at the two-character literals only
RECURSIVE SplitLiteralFrom(_, _)
SplitLiteralFrom(s, buf) ==
    IF s = <<>> THEN <<[seg |-> buf, sep |-> ""]>>
    ELSE IF Head(s) = "BSL" /\ Len(s) >= 2 /\ s[2] \in {"n", "t"}
    THEN <<[seg |-> buf, sep |-> IF s[2] = "n" THEN "\\n" ELSE "\\t"]>>
         \o SplitLiteralFrom(Tail(Tail(s)), <<>>)
    ELSE SplitLiteralFrom(Tail(s), Append(buf, Head(s)))

split_literals_only(s) == SplitLiteralFrom(s, <<>>)

\* lines 35-53: (segment, sep) pairs, sep in {"", "\\n", "\\t"}
RECURSIVE SplitFrom(_, _)
SplitFrom(s, buf) ==
    IF s = <<>> THEN <<[seg |-> buf, sep |-> ""]>>
    ELSE IF Head(s) = "BSL" /\ Len(s) >= 2 /\ s[2] \in {"n", "t"}
    THEN <<[seg |-> buf, sep |-> IF s[2] = "n" THEN "\\n" ELSE "\\t"]>>
         \o SplitFrom(Tail(Tail(s)), <<>>)
    ELSE IF Head(s) \in {"LF", "TAB"}
    THEN <<[seg |-> buf, sep |-> IF Head(s) = "LF" THEN "\\n" ELSE "\\t"]>>
         \o SplitFrom(Tail(s), <<>>)
    ELSE SplitFrom(Tail(s), Append(buf, Head(s)))

_split_keep_seps(s) == SplitFrom(s, <<>>)

\* number of <a:t> at or below an element
RECURSIVE CountT(_)
CountT(e) ==
    IF e.k = "t" THEN 1
    ELSE LET n == Len(e.ch) IN
         IF n = 0 THEN 0
         ELSE CountT(e.ch[1]) + CountT([e EXCEPT !.ch = Tail(e.ch)])

RECURSIVE SumSeq(_)
SumSeq(ns) == IF ns = <<>> THEN 0 ELSE Head(ns) + SumSeq(Tail(ns))

CountTPara(p) == SumSeq([i \in 1..Len(p.items) |-> CountT(p.items[i])])

\* every <a:p> of the slide in document order, as locators
AllParas(slide) ==
    LET all == AllNodes(slide.spTree, <<>>) IN
    Flatten([i \in 1..Len(all) |-> ParasOf(all[i])])

\* _find_runs: root.findall(".//a:t"); the number found
NumRuns(slide) ==
    LET ps == AllParas(slide) IN
    SumSeq([i \in 1..Len(ps) |-> CountTPara(ParaAt(slide, ps[i]))])

\* the placeholder test left out
shape_is_never_skipped(sp_el) == FALSE

\* lines 60-66
_shape_is_skipped_placeholder(sp_el) == sp_el.ph \in {"sldNum", "dt", "ftr", "hdr"}

\* lines 68-99, on the node at `path`
RECURSIVE _collect_paragraphs_from_node(_, _)
_collect_paragraphs_from_node(node, path) ==
    LET pn == [path |-> path, n |-> node] IN
    CASE node.tag = "sp" ->
            IF _shape_is_skipped_placeholder(node) THEN <<>> ELSE ParasOf(pn)
      [] node.tag = "grpSp" ->
            Flatten([i \in 1..Len(node.kids) |->
                _collect_paragraphs_from_node(node.kids[i], Append(path, i))])
      [] node.tag = "graphicFrame" -> ParasOf(pn)
      [] OTHER ->
            Flatten([i \in 1..Len(node.kids) |->
                _collect_paragraphs_from_node(node.kids[i], Append(path, i))])

\* lines 101-113 (every slide part of the model has a shape tree)
_collect_paragraphs(slide) ==
    Flatten([i \in 1..Len(slide.spTree) |->
        _collect_paragraphs_from_node(slide.spTree[i], <<i>>)])

\* the <a:t> selected by  .//a:r[not(ancestor::m:oMath or
\* ancestor::m:oMathPara)]/a:t , as pairs (item index, child index)
PlainT(p_el) ==
    Flatten([i \in 1..Len(p_el.items) |->
        IF p_el.items[i].k = "r"
        THEN SelectSeq([j \in 1..Len(p_el.items[i].ch) |-> <<i, j>>],
                       LAMBDA ij : p_el.items[i].ch[ij[2]].k = "t")
        ELSE <<>>])

_visible_plaintext_outside_math(p_el) ==
    LET ts == PlainT(p_el) IN
    Flatten([k \in 1..Len(ts) |-> p_el.items[ts[k][1]].ch[ts[k][2]].s])

\* lines 127-143
_replace_plaintext_preserving_math(p_el, new_text) ==
    LET ts == PlainT(p_el) IN
    IF ts = <<>> THEN p_el
    ELSE [p_el EXCEPT !.items =
            [i \in 1..Len(p_el.items) |->
                [p_el.items[i] EXCEPT !.ch =
                    [j \in 1..Len(p_el.items[i].ch) |->
                        IF <<i, j>> = ts[1]
                        THEN [p_el.items[i].ch[j] EXCEPT !.s = new_text, !.pres = TRUE]
                        ELSE IF \E k \in 2..Len(ts) : ts[k] = <<i, j>>
                        THEN [p_el.items[i].ch[j] EXCEPT !.s = <<>>]
                        ELSE p_el.items[i].ch[j]]]]]

(***************************************************************************)
(* reintegrator_all.py: writers                                            *)
(***************************************************************************)
\* lines 150-158: the elements appended to the parent for one <a:t>
_replace_single_t_with_segments(text) ==
    LET segs == _split_keep_seps(text) IN
    Flatten([i \in 1..Len(segs) |->
        <<TP(segs[i].seg)>>
        \o (CASE segs[i].sep = "\\n" -> <<BR>>
              [] segs[i].sep = "\\t" -> <<TAB>>
              [] OTHER -> <<>>)])

\* number of <a:t> in the first n children of e
RECURSIVE CountTBefore(_, _)
CountTBefore(ch, n) ==
    IF n = 0 THEN 0 ELSE CountTBefore(ch, n - 1) + CountT(ch[n])

\* Lines 176-177 on one element: ls holds one line per <a:t> at or below e,
\* in document order.  The parent of a direct <a:t> child of a run or field
\* is that run: the unit is removed and its segments are appended after the
\* children that stay.  Every <a:t> nested in a formula has an <a:r> of its
\* own there, so its segments take its place.
RECURSIVE PatchRunsEl(_, _)
PatchRunsEl(e, ls) ==
    LET n == Len(e.ch)
        sub(i) == SubSeq(ls, CountTBefore(e.ch, i - 1) + 1, CountTBefore(e.ch, i))
        kept == Flatten([i \in 1..n |->
                    IF e.ch[i].k = "t" THEN <<>> ELSE <<PatchRunsEl(e.ch[i], sub(i))>>])
        moved == Flatten([i \in 1..n |->
                    IF e.ch[i].k = "t"
                    THEN _replace_single_t_with_segments(sub(i)[1]) ELSE <<>>])
        inplace == Flatten([i \in 1..n |->
                    IF e.ch[i].k = "t"
                    THEN _replace_single_t_with_segments(sub(i)[1])
                    ELSE <<PatchRunsEl(e.ch[i], sub(i))>>])
    IN IF n = 0 THEN e
       ELSE IF e.k = "m" THEN [e EXCEPT !.ch = inplace]
       ELSE [e EXCEPT !.ch = kept \o moved]

PatchRunsPara(p, ls) ==
    [p EXCEPT !.items =
        [i \in 1..Len(p.items) |->
            PatchRunsEl(p.items[i],
                SubSeq(ls, CountTBefore(p.items, i - 1) + 1, CountTBefore(p.items, i)))]]

\* the tree with the paragraph at every locator of DOMAIN repl replaced
RECURSIVE RebuildNodes(_, _, _)
RebuildNodes(nodes, prefix, repl) ==
    [i \in 1..Len(nodes) |->
        LET path == Append(prefix, i) IN
        [nodes[i] EXCEPT
            !.paras = [j \in 1..Len(nodes[i].paras) |->
                        LET loc == [path |-> path, p |-> j] IN
                        IF loc \in DOMAIN repl THEN repl[loc] ELSE nodes[i].paras[j]],
            !.kids = RebuildNodes(nodes[i].kids, path, repl)]]

\* the last n_xml lines kept when there are too many
KeepLastLines(lines, n_xml) ==
    IF Len(lines) < n_xml THEN lines \o Repeat(<<>>, n_xml - Len(lines))
    ELSE SubSeq(lines, Len(lines) - n_xml + 1, Len(lines))

\* lines 170-174 and 200-204: the lines padded or truncated to n_xml
PadTruncate(lines, n_xml) ==
    IF Len(lines) < n_xml THEN lines \o Repeat(<<>>, n_xml - Len(lines))
    ELSE SubSeq(lines, 1, n_xml)

\* the truncation warning giving the number of lines read instead of the
\* number dropped
TruncWarningTotal(method, n_txt, n_xml) ==
    IF n_txt > n_xml
    THEN <<[kind |-> "WARN_truncating", method |-> method, n |-> n_txt]>>
    ELSE <<>>

\* the log records of one call: a truncation warning with the number of
\* dropped lines (lines 173, 203); no record is made of padding
TruncWarning(method, n_txt, n_xml) ==
    IF n_txt > n_xml
    THEN <<[kind |-> "WARN_truncating", method |-> method, n |-> n_txt - n_xml]>>
    ELSE <<>>

\* lines 161-180; the result is [slide, wrote, count, log]
_patch_slide_runs(slide, lines) ==
    LET ps == AllParas(slide)
        cnt == [i \in 1..Len(ps) |-> CountTPara(ParaAt(slide, ps[i]))]
        n_xml == SumSeq(cnt)
        n_txt == Len(lines)
        padded == PadTruncate(lines, n_xml)
        off(i) == SumSeq(SubSeq(cnt, 1, i - 1))
        repl == [loc \in {ps[i] : i \in 1..Len(ps)} |->
                    LET i == CHOOSE k \in 1..Len(ps) : ps[k] = loc IN
                    PatchRunsPara(ParaAt(slide, loc),
                                  SubSeq(padded, off(i) + 1, off(i) + cnt[i]))]
    IN [slide |-> [slide EXCEPT !.spTree = RebuildNodes(slide.spTree, <<>>, repl)],
        wrote |-> TRUE,
        count |-> n_xml,
        log |-> TruncWarning("runs", n_txt, n_xml)]

\* lines 182-215
_patch_slide_paragraphs(slide, lines) ==
    LET p_nodes == _collect_paragraphs(slide)
        n_xml == Len(p_nodes)
        n_txt == Len(lines)
        padded == PadTruncate(lines, n_xml)
        repl == [loc \in {p_nodes[i] : i \in 1..n_xml} |->
                    LET i == CHOOSE k \in 1..n_xml : p_nodes[k] = loc
                        p_el == ParaAt(slide, loc)
                    IN IF StripNonEmpty(_visible_plaintext_outside_math(p_el))
                       THEN _replace_plaintext_preserving_math(p_el, padded[i])
                       ELSE p_el]
    IN IF n_xml = 0
       THEN [slide |-> slide, wrote |-> FALSE, count |-> 0,
             log |-> <<[kind |-> "INFO_no_paragraphs", method |-> "paragraphs", n |-> 0]>>]
       ELSE [slide |-> [slide EXCEPT !.spTree = RebuildNodes(slide.spTree, <<>>, repl)],
             wrote |-> TRUE,
             count |-> n_xml,
             log |-> TruncWarning("paragraphs", n_txt, n_xml)]

\* _choose_method with the lower threshold taken as strict (0.90 < ratio)
choose_method_strict(n_runs, n_lines) ==
    IF n_lines = 0 THEN "paragraphs"
    ELSE LET diff == Abs(n_runs - n_lines) IN
         IF 90 * n_lines < 100 * n_runs /\ 100 * n_runs <= 115 * n_lines /\ diff <= 2
         THEN "runs"
         ELSE "paragraphs"

\* lines 218-228.  ratio = n_runs / float(n_lines) is compared with 0.90 and
\* 1.15 here on the exact quotient: 0.90 <= r/l is 90*l <= 100*r, and
\* r/l <= 1.15 is 100*r <= 115*l.
_choose_method(n_runs, n_lines) ==
    IF n_lines = 0 THEN "paragraphs"
    ELSE LET diff == Abs(n_runs - n_lines) IN
         IF 90 * n_lines <= 100 * n_runs /\ 100 * n_runs <= 115 * n_lines /\ diff <= 2
         THEN "runs"
         ELSE "paragraphs"

\* lines 230-242, for a part that parses; [method, n_runs, patch]
_patch_slide_hybrid(slide, txt_lines) ==
    LET n_runs == NumRuns(slide)
        method == _choose_method(n_runs, Len(txt_lines))
    IN [method |-> method,
        n_runs |-> n_runs,
        patch |-> IF method = "runs" THEN _patch_slide_runs(slide, txt_lines)
                  ELSE _patch_slide_paragraphs(slide, txt_lines)]

(***************************************************************************)
(* The state.                                                              *)
(***************************************************************************)
VARIABLES
    pptx_in,      \* the container read: slide index -> part ppt/slides/slide<i>.xml
    in_place,     \* pptx_out is the path of pptx_in (reintegrate_text_and_audio)
    txt_dir,      \* the LineFile directory: slide index -> content of slide<i>.txt
    pc,           \* position of the running operation
    slide_idx,    \* extract_slide_text: the index probed next
    saved_files,  \* extract_slide_text: the LineFiles recorded so far
    tmpdir,       \* reintegration: the working tree's slide parts
    todo,         \* reintegration: the slides still to visit, in loop order
    modified,     \* reintegration: the counter returned
    target,       \* the file at pptx_out: [st, slides]
    raised,       \* the exception that ended the operation, "" when none
    log,          \* the messages given to log_fn
    edited,       \* the slides whose LineFile the external editor rewrote
    call,         \* a pure function under test: [fn, args, ret]
    pkg_in,       \* the container read: its media parts and its manifest
    target_pkg,   \* the media parts and the manifest of the file at pptx_out
    tmp_pkg,      \* the working tree: whether it exists, its media, its manifest
    media_dir,    \* <output_dir>/media: whether it exists, and its files
    tts_dir,      \* the replacement audio directory: file name -> content
    new_pptx,     \* reintegrate_audio_to_pptx: the state of the .tmp.pptx file
    replaced,     \* reintegrate_audio_to_pptx: the counter returned
    extracted_files,  \* extract_audio_from_pptx: the names written, in order
    history       \* what earlier runs on the same inputs left: [lines, outs]

\* the variables only the audio operations read or write, and the record
\* of earlier runs, which no operation writes
audio_vars == <<pkg_in, media_dir, tts_dir, new_pptx, replaced, extracted_files,
                history>>

\* the variables only the text operations read or write, and the record of
\* earlier runs
text_vars == <<pptx_in, in_place, txt_dir, slide_idx, saved_files, todo, modified,
               edited, call, history>>

vars == <<pptx_in, in_place, txt_dir, pc, slide_idx, saved_files, tmpdir, todo,
          modified, target, raised, log, edited, call, target_pkg, tmp_pkg,
          audio_vars>>

NoCall == [fn |-> "", args |-> <<>>, ret |-> ""]
NoHistory == [lines |-> <<>>, outs |-> <<>>]
EmptyMap == [i \in {} |-> <<>>]

\* The file at pptx_out.  st = "absent": no file; "complete": a whole
\* archive; "partial": a file opened for writing whose archive is not whole.
\* slides are the slide parts in it.
Archive(slides) == [st |-> "complete", slides |-> slides]
NoFile == [st |-> "absent", slides |-> EmptyMap]

\* The parts of a container other than its slides: the media parts
\* ppt/media/<name>, name -> content, and the manifest [Content_Types].xml
\* with its Default declarations, in document order.
Name(stem, ext) == [stem |-> stem, ext |-> ext]
Manifest(st, defaults) == [st |-> st, defaults |-> defaults]
NoManifest == Manifest("absent", <<>>)
NoFiles == [n \in {} |-> ""]
Pkg(media, ct) == [media |-> media, ct |-> ct]
NoPkg == Pkg(NoFiles, NoManifest)

\* a working tree into which the media parts were not unpacked
TreeWithoutMedia(pkg) == [exists |-> TRUE, media |-> NoFiles, ct |-> pkg.ct]

\* the working tree of a reintegration (tempfile.TemporaryDirectory)
NoTree == [exists |-> FALSE, media |-> NoFiles, ct |-> NoManifest]

\* lines 247-250: the tree after zin.extractall
Tree(pkg) == [exists |-> TRUE, media |-> pkg.media, ct |-> pkg.ct]

\* a directory of files, and a directory that does not exist
Dir(files) == [exists |-> TRUE, files |-> files]
NoDir == [exists |-> FALSE, files |-> NoFiles]

(***************************************************************************)
(* The inputs: slides, decks and edited LineFiles.                         *)
(***************************************************************************)
ParaLib ==
    { Para("", <<R(<<"a">>)>>),                          \* one run
      Para("", <<>>),                                    \* empty paragraph
      Para("", <<R(<<"a">>), R(<<"b">>)>>),              \* several runs
      Para("", <<R(<<"a">>), BR, R(<<"b">>)>>),          \* line break
      Para("", <<R(<<"a", "TAB", "b">>)>>),              \* tab
      Para("", <<R(<<"a", "BSL", "n">>)>>),              \* backslash
      Para("BUL", <<R(<<"a">>)>>),                       \* bullet
      Para("", <<M(<<MT(<<"x">>), T(<<"y">>)>>), R(<<"a">>)>>),  \* formula and run
      Para("", <<M(<<MT(<<"x">>)>>)>>) }                 \* formula only

SeqsUpTo(S, n) == UNION {[1..k -> S] : k \in 0..n}

\* a slide with one shape holding up to MaxParas paragraphs
ContentSlides == {Slide(<<Sp("", ps)>>) : ps \in SeqsUpTo(ParaLib, MaxParas)}

PA == Para("", <<R(<<"a">>)>>)
PB == Para("", <<R(<<"b">>)>>)
PM == Para("", <<M(<<MT(<<"x">>)>>), R(<<"a">>)>>)

\* The shapes of the layout slides.  The text of a date, footer, slide-number
\* or header placeholder is a character no other shape holds.
ShapeLib ==
    { Sp("", <<PA>>),
      Sp("title", <<PA, PB, PM>>),
      Sp("dt", <<Para("", <<FLD(<<"d">>)>>)>>),
      Sp("ftr", <<Para("", <<R(<<"f">>)>>)>>),
      Frame(<<PA, PB>>),
      Grp(<<Sp("", <<PB>>), Sp("sldNum", <<Para("", <<FLD(<<"s">>)>>)>>)>>),
      Other(<<Sp("hdr", <<Para("", <<R(<<"h">>)>>)>>), Sp("", <<PA>>)>>) }
PlaceholderChars == {"d", "f", "s", "h"}

\* a slide with up to MaxShapes children of the shape tree
LayoutSlides == {Slide(sh) : sh \in SeqsUpTo(ShapeLib, MaxShapes) \ {<<>>}}

SlideLib == ContentSlides \cup LayoutSlides \cup {Malformed}

\* the parts of the decks: a slide with text, a slide without any
\* paragraph, a part that does not parse
DeckLib == { Slide(<<Sp("", <<PA>>)>>), Slide(<<>>), Malformed }

Decks == UNION {[S -> DeckLib] : S \in SUBSET (1..MaxSlideNo)}

\* The LineFile an external editor leaves: k lines, line i ending in the
\* digit i, plain or with a literal \n inside.
Digit(i) == <<"0", "1", "2", "3", "4", "5", "6", "7", "8", "9">>[(i % 10) + 1]
Styles == {"plain", "break"}
EditedLine(style, i) ==
    IF style = "plain" THEN <<"z", Digit(i)>>
    ELSE <<"z", "BSL", "n", Digit(i)>>
EditedContent(style, k) == JoinLF([i \in 1..k |-> EditedLine(style, i)])

(***************************************************************************)
(* extract_slide_text                      slide_text_extractor.py:164-196 *)
(***************************************************************************)
\* lines 181-194, a part that parses: the LineFile is written, the count
\* logged, the file recorded, the index advanced
ExtractSlide ==
    /\ pc = "extract"
    /\ slide_idx \in DOMAIN pptx_in
    /\ pptx_in[slide_idx].ok
    /\ LET lines == SlideLines(pptx_in[slide_idx]) IN
        /\ txt_dir' = [i \in DOMAIN txt_dir \cup {slide_idx} |->
                          IF i = slide_idx THEN LineFileContent(lines) ELSE txt_dir[i]]
        /\ log' = Append(log, [kind |-> "INFO_paragraphs", slide |-> slide_idx,
                               n |-> Len(lines)])
    /\ saved_files' = Append(saved_files, slide_idx)
    /\ slide_idx' = slide_idx + 1
    /\ UNCHANGED <<pptx_in, in_place, pc, tmpdir, todo, modified, target, raised,
                   edited, call,
                   target_pkg, tmp_pkg, audio_vars>>

\* line 186 (124): ET.fromstring raises ParseError, which nothing catches
ExtractRaise ==
    /\ pc = "extract"
    /\ slide_idx \in DOMAIN pptx_in
    /\ ~pptx_in[slide_idx].ok
    /\ pc' = "extract_raised"
    /\ raised' = "ParseError"
    /\ UNCHANGED <<pptx_in, in_place, txt_dir, slide_idx, saved_files, tmpdir, todo,
                   modified, target, log, edited, call,
                   target_pkg, tmp_pkg, audio_vars>>

\* lines 181-191 with a log_fn that raises: the LineFile is written (190),
\* the exception of log_fn (191) leaves the loop and the operation
ExtractSlideSinkRaises ==
    /\ pc = "extract"
    /\ slide_idx \in DOMAIN pptx_in
    /\ pptx_in[slide_idx].ok
    /\ txt_dir' = [i \in DOMAIN txt_dir \cup {slide_idx} |->
                      IF i = slide_idx
                      THEN LineFileContent(SlideLines(pptx_in[slide_idx]))
                      ELSE txt_dir[i]]
    /\ pc' = "extract_raised"
    /\ raised' = "SinkError"
    /\ UNCHANGED <<pptx_in, in_place, slide_idx, saved_files, tmpdir, todo, modified,
                   target, log, edited, call, target_pkg, tmp_pkg, audio_vars>>

\* the loop left at whatever index is probed
ExtractReturnEarly ==
    /\ pc = "extract"
    /\ pc' = "extracted"
    /\ UNCHANGED <<pptx_in, in_place, txt_dir, slide_idx, saved_files, tmpdir, todo,
                   modified, target, raised, log, edited, call,
                   target_pkg, tmp_pkg, audio_vars>>

\* lines 183-184, 196: the first absent index ends the loop
ExtractReturn ==
    /\ pc = "extract"
    /\ slide_idx \notin DOMAIN pptx_in
    /\ pc' = "extracted"
    /\ UNCHANGED <<pptx_in, in_place, txt_dir, slide_idx, saved_files, tmpdir, todo,
                   modified, target, raised, log, edited, call,
                   target_pkg, tmp_pkg, audio_vars>>

(***************************************************************************)
(* Between extraction and reintegration the LineFiles are in the hands of  *)
(* an external editor (the translation step), which may rewrite one.       *)
(***************************************************************************)
EditLineFile ==
    /\ pc \in {"extracted", "extract_raised"}
    /\ edited = {}
    /\ \E i \in DOMAIN pptx_in, k \in 0..MaxLines, style \in Styles :
        /\ txt_dir' = [j \in DOMAIN txt_dir \cup {i} |->
                          IF j = i THEN EditedContent(style, k) ELSE txt_dir[j]]
        /\ edited' = {i}
    /\ UNCHANGED <<pptx_in, in_place, pc, slide_idx, saved_files, tmpdir, todo,
                   modified, target, raised, log, call,
                   target_pkg, tmp_pkg, audio_vars>>

(***************************************************************************)
(* reintegrate_translated_slide_text            reintegrator_all.py:245-272 *)
(***************************************************************************)
\* decimal digits of a slide index, and the order of sorted() on the names
\* slide<i>.xml: character by character, "." before every digit
RECURSIVE Digits(_)
Digits(i) == IF i < 10 THEN <<i>> ELSE Append(Digits(i \div 10), i % 10)

RECURSIVE LexLess(_, _)
LexLess(x, y) ==
    IF x = <<>> THEN y # <<>>
    ELSE IF y = <<>> THEN FALSE
    ELSE IF Head(x) # Head(y) THEN Head(x) < Head(y)
    ELSE LexLess(Tail(x), Tail(y))

RECURSIVE SortedSlides(_)
SortedSlides(S) ==
    IF S = {} THEN <<>>
    ELSE LET first == CHOOSE i \in S :
                        \A j \in S \ {i} : LexLess(Digits(i), Digits(j))
         IN <<first>> \o SortedSlides(S \ {first})

\* lines 247-253: the container is unpacked into a fresh working tree and
\* its slide parts are listed in sorted order.  The container read is the
\* file at pptx_out when reintegrate_text_and_audio made the call (line 317).
ReintStart ==
    /\ pc \in {"extracted", "extract_raised"}
    /\ pc' = "reint_loop"
    /\ raised' = ""
    /\ tmpdir' = (IF in_place THEN target.slides ELSE pptx_in)
    /\ todo' = SortedSlides(DOMAIN tmpdir')
    /\ modified' = 0
    /\ tmp_pkg' = Tree(IF in_place THEN target_pkg ELSE pkg_in)
    /\ UNCHANGED <<pptx_in, in_place, txt_dir, slide_idx, saved_files, target, log,
                   edited, call, target_pkg, audio_vars>>

\* ReintSkip with the skipped slide counted as modified
ReintSkipCounted ==
    /\ pc = "reint_loop"
    /\ todo # <<>>
    /\ _read_lines(txt_dir, Head(todo)) = <<>>
    /\ log' = Append(log, [kind |-> "SKIP", slide |-> Head(todo)])
    /\ todo' = Tail(todo)
    /\ modified' = modified + 1
    /\ UNCHANGED <<pptx_in, in_place, txt_dir, pc, slide_idx, saved_files, tmpdir,
                   target, raised, edited, call, target_pkg, tmp_pkg, audio_vars>>

\* lines 254-259: no lines for the slide
ReintSkip ==
    /\ pc = "reint_loop"
    /\ todo # <<>>
    /\ _read_lines(txt_dir, Head(todo)) = <<>>
    /\ log' = Append(log, [kind |-> "SKIP", slide |-> Head(todo)])
    /\ todo' = Tail(todo)
    /\ UNCHANGED <<pptx_in, in_place, txt_dir, pc, slide_idx, saved_files, tmpdir,
                   modified, target, raised, edited, call,
                   target_pkg, tmp_pkg, audio_vars>>

\* the counter with every visited slide counted, whatever was written
CountEveryVisit(n, wrote) == n + 1

\* lines 263-264
CountModified(n, wrote) == IF wrote > 0 THEN n + 1 ELSE n

\* lines 261-264: the slide part is patched in the working tree
ReintPatch ==
    /\ pc = "reint_loop"
    /\ todo # <<>>
    /\ LET num == Head(todo)
           lines == _read_lines(txt_dir, num)
           h == _patch_slide_hybrid(tmpdir[num], lines)
       IN /\ lines # <<>>
          /\ tmpdir[num].ok
          /\ tmpdir' = [tmpdir EXCEPT ![num] = h.patch.slide]
          /\ log' = log \o
                [i \in 1..Len(h.patch.log) |->
                    [kind |-> h.patch.log[i].kind, slide |-> num,
                     method |-> h.patch.log[i].method, n |-> h.patch.log[i].n]]
                \o <<[kind |-> "INFO_slide", slide |-> num, method |-> h.method,
                      runs |-> h.n_runs, wrote |-> h.patch.count,
                      lines |-> Len(lines)]>>
          /\ modified' = CountModified(modified, h.patch.count)
    /\ todo' = Tail(todo)
    /\ UNCHANGED <<pptx_in, in_place, txt_dir, pc, slide_idx, saved_files, target,
                   raised, edited, call,
                   target_pkg, tmp_pkg, audio_vars>>

\* line 232: ET.parse raises XMLSyntaxError, which nothing catches; leaving
\* the with block removes the working tree (line 247)
ReintRaise ==
    /\ pc = "reint_loop"
    /\ todo # <<>>
    /\ _read_lines(txt_dir, Head(todo)) # <<>>
    /\ ~tmpdir[Head(todo)].ok
    /\ pc' = "reint_raised"
    /\ raised' = "XMLSyntaxError"
    /\ tmpdir' = EmptyMap
    /\ tmp_pkg' = NoTree
    /\ UNCHANGED <<pptx_in, in_place, txt_dir, slide_idx, saved_files, todo,
                   modified, target, log, edited, call, target_pkg, audio_vars>>

\* line 266: zipfile.ZipFile(pptx_out, "w") creates or truncates the file
RepackOpen ==
    /\ pc = "reint_loop"
    /\ todo = <<>>
    /\ pc' = "repack"
    /\ target' = [st |-> "partial", slides |-> EmptyMap]
    /\ target_pkg' = NoPkg
    /\ UNCHANGED <<pptx_in, in_place, txt_dir, slide_idx, saved_files, tmpdir, todo,
                   modified, raised, log, edited, call, tmp_pkg, audio_vars>>

\* lines 267-269: one more file of the working tree goes into the archive,
\* in the order rglob yields them
RepackWrite ==
    /\ pc = "repack"
    /\ \/ /\ \E i \in DOMAIN tmpdir \ DOMAIN target.slides :
                target' = [target EXCEPT !.slides =
                              [j \in DOMAIN target.slides \cup {i} |->
                                  IF j = i THEN tmpdir[i] ELSE target.slides[j]]]
          /\ UNCHANGED target_pkg
       \/ /\ \E n \in DOMAIN tmp_pkg.media \ DOMAIN target_pkg.media :
                target_pkg' = [target_pkg EXCEPT !.media =
                                  [m \in DOMAIN target_pkg.media \cup {n} |->
                                      IF m = n THEN tmp_pkg.media[n]
                                      ELSE target_pkg.media[m]]]
          /\ UNCHANGED target
       \/ /\ tmp_pkg.ct.st # "absent"
          /\ target_pkg.ct.st = "absent"
          /\ target_pkg' = [target_pkg EXCEPT !.ct = tmp_pkg.ct]
          /\ UNCHANGED target
    /\ UNCHANGED <<pptx_in, in_place, txt_dir, pc, slide_idx, saved_files, tmpdir,
                   todo, modified, raised, log, edited, call, tmp_pkg, audio_vars>>

\* lines 266-272: every file is written, the archive is closed, the working
\* tree removed, the count returned
RepackClose ==
    /\ pc = "repack"
    /\ DOMAIN target.slides = DOMAIN tmpdir
    /\ target_pkg = Pkg(tmp_pkg.media, tmp_pkg.ct)
    /\ target' = [target EXCEPT !.st = "complete"]
    /\ tmpdir' = EmptyMap
    /\ tmp_pkg' = NoTree
    /\ log' = Append(log, [kind |-> "DONE", slide |-> 0])
    /\ pc' = "done"
    /\ UNCHANGED <<pptx_in, in_place, txt_dir, slide_idx, saved_files, todo,
                   modified, raised, edited, call, target_pkg, audio_vars>>

\* A failure of the file system while the archive is written (lines
\* 266-269): the exception leaves both with blocks, the working tree is
\* removed, the file at pptx_out stays as the failed write left it.
RepackFail ==
    /\ pc = "repack"
    /\ pc' = "reint_raised"
    /\ raised' = "OSError"
    /\ tmpdir' = EmptyMap
    /\ tmp_pkg' = NoTree
    /\ UNCHANGED <<pptx_in, in_place, txt_dir, slide_idx, saved_files, todo,
                   modified, target, log, edited, call, target_pkg, audio_vars>>

(***************************************************************************)
(* The audio operations.  A file name is [stem, ext]; the content of a     *)
(* file is a string naming where it came from.  The operations are entered *)
(* when no operation runs; log then holds the messages of the operation    *)
(* entered last.                                                           *)
(***************************************************************************)
AudioReady == {"idle", "done", "audio_returned", "audio_raised"}

Restrict(f, S) == [x \in S |-> f[x]]
Overlay(f, g) == [x \in DOMAIN f \cup DOMAIN g |-> IF x \in DOMAIN g THEN g[x] ELSE f[x]]
Orderings(S) == {q \in [1..Cardinality(S) -> S] :
                    \A a, b \in 1..Cardinality(S) : a # b => q[a] # q[b]}

\* the paths an entry point can be given in place of a container: no such
\* file, a container under another suffix, an empty file named .pptx, a
\* file named .pptx that is no zip archive
InvalidPaths == {"missing", "wrong_suffix", "zero_byte", "not_zip"}

\* slide_text_extractor.py:211, and str.lower() on the suffixes of the model
audio_extensions == {"m4a", "mp3", "aac", "wav", "wma"}
lower(ext) == IF ext = "M4A" THEN "m4a" ELSE IF ext = "MP3" THEN "mp3" ELSE ext
IsAudio(name) == lower(name.ext) \in audio_extensions

\* the directory with every audio file kept
KeepFiles(files) == files

\* slide_text_extractor.py:216-221
ClearAudio(files) == Restrict(files, {n \in DOMAIN files : ~IsAudio(n)})

\* the name a part is written under when its index is renumbered from 1
Renumbered(file) == Name("media1", file.ext)

\* slide_text_extractor.py:232
orig_name(file) == file

\* slide_text_extractor.py:203-239 on a container
ExtractAudio ==
    /\ pc \in AudioReady
    /\ target.st = "complete"
    /\ \E order \in Orderings({n \in DOMAIN target_pkg.media : IsAudio(n)}) :
          LET written == [n \in {orig_name(order[i]) : i \in 1..Len(order)} |->
                             LET i == CHOOSE k \in 1..Len(order) :
                                         orig_name(order[k]) = n
                                            /\ \A l \in k+1..Len(order) :
                                                   orig_name(order[l]) # n
                             IN target_pkg.media[order[i]]]
          IN /\ media_dir' = Dir(Overlay(ClearAudio(media_dir.files), written))
             /\ extracted_files' = [i \in 1..Len(order) |-> orig_name(order[i])]
             /\ log' = <<[kind |-> "INFO_extracted", slide |-> 0, n |-> Len(order)]>>
    /\ pc' = "audio_returned"
    /\ raised' = ""
    /\ UNCHANGED <<text_vars, tmpdir, target, target_pkg, tmp_pkg, pkg_in, tts_dir,
                   new_pptx, replaced>>

\* slide_text_extractor.py:203-238 with a log_fn that raises: the files are
\* written, the exception of log_fn (238) ends the operation and no list is
\* returned
ExtractAudioSinkRaises ==
    /\ pc \in AudioReady
    /\ target.st = "complete"
    /\ \E order \in Orderings({n \in DOMAIN target_pkg.media : IsAudio(n)}) :
          LET written == [n \in {orig_name(order[i]) : i \in 1..Len(order)} |->
                             LET i == CHOOSE k \in 1..Len(order) :
                                         orig_name(order[k]) = n
                                            /\ \A l \in k+1..Len(order) :
                                                   orig_name(order[l]) # n
                             IN target_pkg.media[order[i]]]
          IN media_dir' = Dir(Overlay(ClearAudio(media_dir.files), written))
    /\ pc' = "audio_raised"
    /\ raised' = "SinkError"
    /\ log' = <<>>
    /\ UNCHANGED <<text_vars, tmpdir, target, target_pkg, tmp_pkg, pkg_in, tts_dir,
                   new_pptx, replaced, extracted_files>>

\* slide_text_extractor.py:208-226 on a path that is no container: lines
\* 208-209 raise for a missing path and for another suffix; an empty file
\* and a file that is no zip pass them, the directory is made (213), the
\* audio files in it are removed (216-221) and zipfile.ZipFile raises (226)
ExtractAudioInvalid ==
    /\ pc \in AudioReady
    /\ \E kind \in InvalidPaths :
          IF kind \in {"missing", "wrong_suffix"}
          THEN /\ raised' = "ValueError"
               /\ UNCHANGED media_dir
          ELSE /\ raised' = "BadZipFile"
               /\ media_dir' = Dir(ClearAudio(media_dir.files))
    /\ pc' = "audio_raised"
    /\ log' = <<>>
    /\ UNCHANGED <<text_vars, tmpdir, target, target_pkg, tmp_pkg, pkg_in, tts_dir,
                   new_pptx, replaced, extracted_files>>

\* reintegrator_all.py:276-280: the container is unpacked into a fresh
\* working tree
ReintAudioStart ==
    /\ pc \in AudioReady
    /\ target.st = "complete"
    /\ replaced' = 0
    /\ tmpdir' = target.slides
    /\ tmp_pkg' = Tree(target_pkg)
    /\ log' = <<>>
    /\ raised' = ""
    /\ pc' = "audio_manifest"
    /\ UNCHANGED <<text_vars, target, target_pkg, pkg_in, media_dir, tts_dir,
                   new_pptx, extracted_files>>

\* reintegrator_all.py:277-280 on a path that is no container: ZipFile
\* raises and the working tree, just made, is removed
ReintAudioInvalid ==
    /\ pc \in AudioReady
    /\ \E kind \in InvalidPaths \ {"wrong_suffix"} :
          raised' = IF kind = "missing" THEN "FileNotFoundError" ELSE "BadZipFile"
    /\ replaced' = 0
    /\ log' = <<>>
    /\ pc' = "audio_raised"
    /\ UNCHANGED <<text_vars, tmpdir, target, target_pkg, tmp_pkg, pkg_in, media_dir,
                   tts_dir, new_pptx, extracted_files>>

\* the Default declarations with one for m4a appended in every case
AppendDeclared(defaults) == Append(defaults, "m4a")

\* reintegrator_all.py:289-292
EnsureDeclared(defaults) ==
    IF \E i \in 1..Len(defaults) : defaults[i] = "m4a" THEN defaults
    ELSE Append(defaults, "m4a")

\* reintegrator_all.py:285-295: the manifest is patched, or the failure to
\* parse it is logged
PatchManifest ==
    /\ pc = "audio_manifest"
    /\ IF tmp_pkg.ct.st = "ok"
       THEN /\ tmp_pkg' = [tmp_pkg EXCEPT !.ct.defaults = EnsureDeclared(@)]
            /\ UNCHANGED log
       ELSE /\ log' = Append(log, [kind |-> "ERROR_content_types", slide |-> 0])
            /\ UNCHANGED tmp_pkg
    /\ pc' = "audio_copy"
    /\ UNCHANGED <<text_vars, tmpdir, target, target_pkg, pkg_in, media_dir, tts_dir,
                   new_pptx, replaced, extracted_files, raised>>

\* the replacements when every file of tts_dir is taken
AnyReplacement(dir, media) == DOMAIN dir \cap DOMAIN media

\* reintegrator_all.py:297-299: the files *.m4a of tts_dir whose name is
\* the name of a media part
Replacements(dir, media) == {n \in DOMAIN dir : n.ext = "m4a" /\ n \in DOMAIN media}

\* reintegrator_all.py:297-302
CopyReplacements ==
    /\ pc = "audio_copy"
    /\ LET names == Replacements(tts_dir, tmp_pkg.media) IN
        /\ tmp_pkg' = [tmp_pkg EXCEPT !.media =
                          Overlay(@, Restrict(tts_dir, names))]
        /\ replaced' = Cardinality(names)
        /\ \E order \in Orderings(names) :
              log' = log \o [i \in 1..Len(order) |->
                                [kind |-> "INFO_replaced", slide |-> 0,
                                 name |-> order[i]]]
    /\ pc' = "audio_repack"
    /\ UNCHANGED <<text_vars, tmpdir, target, target_pkg, pkg_in, media_dir, tts_dir,
                   new_pptx, extracted_files, raised>>

\* CopyFail with the working tree left behind
CopyFailLeavesTree ==
    /\ pc = "audio_copy"
    /\ raised' = "OSError"
    /\ pc' = "audio_raised"
    /\ UNCHANGED <<text_vars, tmpdir, tmp_pkg, target, target_pkg, pkg_in, media_dir,
                   tts_dir, new_pptx, replaced, extracted_files, log>>

\* reintegrator_all.py:300 (277): shutil.copy2 fails; the exception leaves
\* the with block, which removes the working tree
CopyFail ==
    /\ pc = "audio_copy"
    /\ raised' = "OSError"
    /\ tmpdir' = EmptyMap
    /\ tmp_pkg' = NoTree
    /\ pc' = "audio_raised"
    /\ UNCHANGED <<text_vars, target, target_pkg, pkg_in, media_dir, tts_dir,
                   new_pptx, replaced, extracted_files, log>>

\* reintegrator_all.py:304-308: the working tree is written to the file
\* .tmp.pptx beside the container
RepackAudio ==
    /\ pc = "audio_repack"
    /\ new_pptx' = "complete"
    /\ pc' = "audio_move"
    /\ UNCHANGED <<text_vars, tmpdir, tmp_pkg, target, target_pkg, pkg_in, media_dir,
                   tts_dir, replaced, extracted_files, log, raised>>

\* reintegrator_all.py:305-308 (277): writing .tmp.pptx fails; the file
\* stays as the failed write left it, the working tree is removed
RepackAudioFail ==
    /\ pc = "audio_repack"
    /\ new_pptx' = "partial"
    /\ raised' = "OSError"
    /\ tmpdir' = EmptyMap
    /\ tmp_pkg' = NoTree
    /\ pc' = "audio_raised"
    /\ UNCHANGED <<text_vars, target, target_pkg, pkg_in, media_dir, tts_dir,
                   replaced, extracted_files, log>>

\* reintegrator_all.py:309-312: .tmp.pptx is moved over the container, the
\* working tree removed, the count returned
MoveAudio ==
    /\ pc = "audio_move"
    /\ target' = Archive(tmpdir)
    /\ target_pkg' = Pkg(tmp_pkg.media, tmp_pkg.ct)
    /\ new_pptx' = "absent"
    /\ tmpdir' = EmptyMap
    /\ tmp_pkg' = NoTree
    /\ log' = Append(log, [kind |-> "DONE_audio", slide |-> 0, n |-> replaced])
    /\ pc' = "audio_returned"
    /\ UNCHANGED <<text_vars, pkg_in, media_dir, tts_dir, replaced, extracted_files,
                   raised>>

(***************************************************************************)
(* An operation run again on the inputs of its first run.                  *)
(***************************************************************************)
\* extract_slide_text entered again (lines 164-178) on the container and
\* the output directory of the run that has ended; the LineFiles that run
\* left are recorded
ExtractAgain ==
    /\ pc \in {"extracted", "extract_raised"}
    /\ edited = {}
    /\ Len(history.lines) < MaxRuns - 1
    /\ history' = [history EXCEPT !.lines = Append(@, txt_dir)]
    /\ pc' = "extract"
    /\ slide_idx' = 1
    /\ saved_files' = <<>>
    /\ raised' = ""
    /\ log' = <<>>
    /\ UNCHANGED <<pptx_in, in_place, txt_dir, tmpdir, todo, modified, target, edited,
                   call, target_pkg, tmp_pkg, pkg_in, media_dir, tts_dir, new_pptx,
                   replaced, extracted_files>>

\* reintegrate_text_and_audio entered again without the copy of line 316:
\* the file the first run left at pptx_out is read
RunAgainOnOutput ==
    /\ in_place
    /\ pc = "audio_returned" /\ log # <<>> /\ log[Len(log)].kind = "DONE_audio"
    /\ Len(history.outs) < MaxRuns - 1
    /\ history' = [history EXCEPT !.outs =
            Append(@, [txt |-> txt_dir, slides |-> target.slides, pkg |-> target_pkg])]
    /\ pc' = "extracted"
    /\ raised' = ""
    /\ log' = <<>>
    /\ UNCHANGED <<pptx_in, in_place, txt_dir, slide_idx, saved_files, tmpdir, todo,
                   modified, edited, call, tmp_pkg, pkg_in, media_dir, tts_dir,
                   new_pptx, replaced, extracted_files, target, target_pkg>>

\* reintegrate_text_and_audio entered again (line 316) with the arguments
\* of the run that has returned: pptx_in is copied over the file at
\* pptx_out, and text reintegration follows; the output the first run left
\* is recorded
RunAgain ==
    /\ in_place
    /\ pc = "audio_returned" /\ log # <<>> /\ log[Len(log)].kind = "DONE_audio"
    /\ Len(history.outs) < MaxRuns - 1
    /\ history' = [history EXCEPT !.outs =
            Append(@, [txt |-> txt_dir, slides |-> target.slides, pkg |-> target_pkg])]
    /\ target' = Archive(pptx_in)
    /\ target_pkg' = pkg_in
    /\ pc' = "extracted"
    /\ raised' = ""
    /\ log' = <<>>
    /\ UNCHANGED <<pptx_in, in_place, txt_dir, slide_idx, saved_files, tmpdir, todo,
                   modified, edited, call, tmp_pkg, pkg_in, media_dir, tts_dir,
                   new_pptx, replaced, extracted_files>>

(***************************************************************************)
(* Specifications.                                                         *)
(***************************************************************************)
\* the state when extract_slide_text is entered on the container `deck`,
\* with an empty LineFile directory
StartPkg(deck, same_path, pkg, out_media, tts, at) ==
    /\ pptx_in = deck
    /\ in_place = same_path
    /\ txt_dir = EmptyMap
    /\ pc = at
    /\ slide_idx = 1
    /\ saved_files = <<>>
    /\ tmpdir = EmptyMap
    /\ todo = <<>>
    /\ modified = 0
    /\ target = IF same_path THEN Archive(deck) ELSE NoFile
    /\ raised = ""
    /\ log = <<>>
    /\ edited = {}
    /\ call = NoCall
    /\ pkg_in = pkg
    /\ target_pkg = IF same_path THEN pkg ELSE NoPkg
    /\ tmp_pkg = NoTree
    /\ media_dir = out_media
    /\ tts_dir = tts
    /\ new_pptx = "absent"
    /\ replaced = 0
    /\ extracted_files = <<>>
    /\ history = NoHistory

\* a container whose only parts are its slides, no audio directory
Start(deck, same_path) == StartPkg(deck, same_path, NoPkg, NoDir, NoFiles, "extract")

Next ==
    \/ ExtractSlide
    \/ ExtractRaise
    \/ ExtractReturn
    \/ EditLineFile
    \/ ReintStart
    \/ ReintSkip
    \/ ReintPatch
    \/ ReintRaise
    \/ RepackOpen
    \/ RepackWrite
    \/ RepackClose
    \/ RepackFail

\* one slide of any shape: extraction, an optional edit, reintegration
Init == \E s \in SlideLib : Start([i \in {1} |-> s], FALSE)

Spec == Init /\ [][Next]_vars

\* decks of several slides, some indices absent, written to a new file
InitDeck == \E deck \in Decks : Start(deck, FALSE)

SpecDeck == InitDeck /\ [][Next]_vars

\* reintegrate_text_and_audio (lines 316-317): the container has been copied
\* to pptx_out, and pptx_out is both read and written
InitInPlace == \E deck \in Decks : DOMAIN deck # {} /\ Start(deck, TRUE)

SpecInPlace == InitInPlace /\ [][Next]_vars

\* decks of ten or more slides, of which the parts slide1.xml, slide2.xml
\* and slide10.xml are kept: a slide index of two digits beside indices of
\* one digit
LongIndices == {1, 2, 10}
LongDecks == UNION {[S -> DeckLib] : S \in SUBSET LongIndices}

InitLong == \E deck \in LongDecks : Start(deck, FALSE)

SpecLong == InitLong /\ [][Next]_vars

\* The containers of the audio operations: the media parts media3.m4a and
\* media17.m4a (indices that are not contiguous), media2.mp3, image1.png,
\* and a manifest that declares m4a, does not, or does not parse.
m3 == Name("media3", "m4a")
m17 == Name("media17", "m4a")
mp3 == Name("media2", "mp3")
png == Name("image1", "png")
Files(names, data) == [n \in names |-> data]
MediaLib == {Files({}, "orig"), Files({m3, m17}, "orig"), Files({m3, mp3, png}, "orig")}
ManifestLib == {Manifest("ok", <<"xml">>), Manifest("ok", <<"xml", "m4a">>),
                Manifest("malformed", <<>>)}
PkgLib == {Pkg(media, ct) : media \in MediaLib, ct \in ManifestLib}

\* the replacement directories: empty; one replacement; replacements of
\* which one has no counterpart (media99.m4a) and one is no m4a file
TtsLib == {Files({}, "tts"), Files({m3}, "tts"),
           Files({m3, Name("media99", "m4a"), mp3}, "tts")}

\* <output_dir>/media before an extraction: not there, empty, or holding
\* the files an earlier extraction of another container left
StaleLib == {NoDir, Dir(NoFiles),
             Dir(Files({m3, Name("media5", "m4a"), Name("media9", "MP3"),
                        Name("notes", "txt")}, "stale"))}

OneSlideDeck == [i \in {1} |-> Slide(<<Sp("", <<PA>>)>>)]

NextAudio ==
    \/ ExtractAudio
    \/ ExtractAudioInvalid
    \/ ReintAudioStart
    \/ ReintAudioInvalid
    \/ PatchManifest
    \/ CopyReplacements
    \/ CopyFail
    \/ RepackAudio
    \/ RepackAudioFail
    \/ MoveAudio

\* any sequence of extract_audio_from_pptx and reintegrate_audio_to_pptx on
\* one container
InitAudio ==
    \E pkg \in PkgLib, out_media \in StaleLib, tts \in TtsLib :
        StartPkg(OneSlideDeck, TRUE, pkg, out_media, tts, "idle")

SpecAudio == InitAudio /\ [][NextAudio]_vars

\* reintegrate_text_and_audio (lines 316-318) and the audio operations
\* after it, on a container of one slide with media parts and a manifest
PackageDecks == {[i \in {1} |-> s] : s \in DeckLib}
PackagePkgs == {Pkg(Files({m3, mp3}, "orig"), ct) : ct \in ManifestLib}

InitPackage ==
    \E deck \in PackageDecks, pkg \in PackagePkgs :
        StartPkg(deck, TRUE, pkg, NoDir, Files({m3, Name("media99", "m4a")}, "tts"),
                 "extract")

NextPackage ==
    \/ ExtractSlide
    \/ ExtractRaise
    \/ ExtractReturn
    \/ EditLineFile
    \/ ReintStart
    \/ ReintSkip
    \/ ReintPatch
    \/ ReintRaise
    \/ RepackOpen
    \/ RepackWrite
    \/ RepackClose
    \/ RepackFail
    \/ ExtractAudio
    \/ ExtractAudioInvalid
    \/ ReintAudioStart
    \/ ReintAudioInvalid
    \/ PatchManifest
    \/ CopyReplacements
    \/ CopyFail
    \/ RepackAudio
    \/ RepackAudioFail
    \/ MoveAudio

SpecPackage == InitPackage /\ [][NextPackage]_vars

\* extract_slide_text and reintegrate_text_and_audio, each run again on
\* the inputs of its first run
RerunDecks == {[i \in {1} |-> s] : s \in DeckLib \cup {Slide(<<Sp("", <<PA, PB>>)>>)}}

InitRerun ==
    \E deck \in RerunDecks, pkg \in PackagePkgs :
        StartPkg(deck, TRUE, pkg, NoDir, Files({m3, Name("media99", "m4a")}, "tts"),
                 "extract")

NextRerun ==
    \/ ExtractSlide
    \/ ExtractRaise
    \/ ExtractReturn
    \/ ExtractAgain
    \/ EditLineFile
    \/ ReintStart
    \/ ReintSkip
    \/ ReintPatch
    \/ ReintRaise
    \/ RepackOpen
    \/ RepackWrite
    \/ RepackClose
    \/ RepackFail
    \/ ReintAudioStart
    \/ PatchManifest
    \/ CopyReplacements
    \/ CopyFail
    \/ RepackAudio
    \/ RepackAudioFail
    \/ MoveAudio
    \/ RunAgain

SpecRerun == InitRerun /\ [][NextRerun]_vars

\* extract_slide_text and extract_audio_from_pptx with a log_fn that may
\* raise when it is called
InitSink ==
    \/ \E deck \in Decks : Start(deck, FALSE)
    \/ \E pkg \in PkgLib, out_media \in StaleLib :
          StartPkg(OneSlideDeck, TRUE, pkg, out_media, NoFiles, "idle")

NextSink ==
    \/ ExtractSlide
    \/ ExtractSlideSinkRaises
    \/ ExtractRaise
    \/ ExtractReturn
    \/ ExtractAudio
    \/ ExtractAudioSinkRaises
    \/ ExtractAudioInvalid

SpecSink == InitSink /\ [][NextSink]_vars

\* _choose_method applied to every pair of counts up to MaxCount
InitChoose ==
    /\ \E n_runs \in 0..MaxCount, n_lines \in 0..MaxCount :
          call = [fn |-> "_choose_method", args |-> <<n_runs, n_lines>>, ret |-> ""]
    /\ pptx_in = EmptyMap
    /\ in_place = FALSE
    /\ txt_dir = EmptyMap
    /\ pc = "call"
    /\ slide_idx = 1
    /\ saved_files = <<>>
    /\ tmpdir = EmptyMap
    /\ todo = <<>>
    /\ modified = 0
    /\ target = NoFile
    /\ raised = ""
    /\ log = <<>>
    /\ edited = {}
    /\ pkg_in = NoPkg
    /\ target_pkg = NoPkg
    /\ tmp_pkg = NoTree
    /\ media_dir = NoDir
    /\ tts_dir = NoFiles
    /\ new_pptx = "absent"
    /\ replaced = 0
    /\ extracted_files = <<>>
    /\ history = NoHistory

ChooseMethod ==
    /\ pc = "call"
    /\ call.fn = "_choose_method"
    /\ call' = [call EXCEPT !.ret = _choose_method(call.args[1], call.args[2])]
    /\ pc' = "returned"
    /\ UNCHANGED <<pptx_in, in_place, txt_dir, slide_idx, saved_files, tmpdir, todo,
                   modified, target, raised, log, edited,
                   target_pkg, tmp_pkg, audio_vars>>

NextChoose == ChooseMethod

SpecChoose == InitChoose /\ [][NextChoose]_vars

(***************************************************************************)
(* Functions applied to drawn arguments: call holds the function, its      *)
(* arguments and, once pc is "returned", its result.                       *)
(***************************************************************************)
call_frame == <<pptx_in, in_place, txt_dir, slide_idx, saved_files, tmpdir, todo,
                modified, target, raised, log, edited, target_pkg, tmp_pkg,
                audio_vars>>

Calling(fn, args) ==
    /\ call = [fn |-> fn, args |-> args, ret |-> <<>>]
    /\ pptx_in = EmptyMap
    /\ in_place = FALSE
    /\ txt_dir = EmptyMap
    /\ pc = "call"
    /\ slide_idx = 1
    /\ saved_files = <<>>
    /\ tmpdir = EmptyMap
    /\ todo = <<>>
    /\ modified = 0
    /\ target = NoFile
    /\ raised = ""
    /\ log = <<>>
    /\ edited = {}
    /\ pkg_in = NoPkg
    /\ target_pkg = NoPkg
    /\ tmp_pkg = NoTree
    /\ media_dir = NoDir
    /\ tts_dir = NoFiles
    /\ new_pptx = "absent"
    /\ replaced = 0
    /\ extracted_files = <<>>
    /\ history = NoHistory

Returns(fn, value) ==
    /\ pc = "call"
    /\ call.fn = fn
    /\ call' = [call EXCEPT !.ret = value]
    /\ pc' = "returned"
    /\ UNCHANGED call_frame

Returned(fn) == pc = "returned" /\ call.fn = fn

(***************************************************************************)
(* The lines of a slide and the text of a paragraph                        *)
(*                                          slide_text_extractor.py:34-190 *)
(***************************************************************************)
\* paragraphs with breaks and tabs as elements of the paragraph, as elements
\* of a run and as characters of a text
ExtractParas ==
    { Para("", <<R(<<"a">>)>>),
      Para("", <<>>),
      Para("", <<R(<<"a">>), TAB, R(<<"b">>)>>),
      Para("", <<RC(<<T(<<"a">>), TAB, T(<<"b">>)>>)>>),
      Para("", <<R(<<"a", "TAB", "b">>)>>),
      Para("", <<R(<<"a">>), BR, R(<<"b">>)>>),
      Para("", <<RC(<<T(<<"a">>), BR, T(<<"b">>)>>)>>),
      Para("", <<R(<<"a", "LF", "b">>)>>),
      Para("BUL", <<TAB, R(<<"a">>), BR>>) }

ExtractSlides == {Slide(<<Sp("", ps)>>) : ps \in SeqsUpTo(ExtractParas, MaxParas)}

LvlAttrs ==
    {[k |-> kind, v |-> 0] : kind \in {"absent", "empty", "bad"}}
    \cup {[k |-> "int", v |-> n] : n \in -1..MaxLvl}

PPrLib ==
    {[present |-> FALSE, buChar |-> "", lvl |-> [k |-> "absent", v |-> 0]]}
    \cup {[present |-> TRUE, buChar |-> b, lvl |-> l] : b \in {"", "BUL"}, l \in LvlAttrs}

\* the bullet of level i of a list style that gives every level its own
LevelBullet(i) == <<"b1", "b2", "b3", "b4", "b5", "b6", "b7", "b8", "b9">>[i]

LstStyleLib ==
    { [present |-> FALSE, lvl |-> [i \in 1..9 |-> ""]],
      [present |-> TRUE, lvl |-> [i \in 1..9 |-> LevelBullet(i)]],
      [present |-> TRUE, lvl |-> [i \in 1..9 |-> IF i = 2 THEN "b2" ELSE ""]] }

BodyLib ==
    {<<>>, <<R(<<"a">>)>>} \cup {<<R(<<c, "a">>)>> : c \in NoSpaceAfterBullet}

InitExtract ==
    \/ \E slide \in ExtractSlides : Calling("extract_slide_text", <<slide>>)
    \/ \E pPr \in PPrLib, lstStyle \in LstStyleLib, items \in BodyLib :
          Calling("_extract_paragraph_text", <<pPr, lstStyle, items>>)

\* lines 186-190: the content written for one slide part
WriteLineFile ==
    Returns("extract_slide_text", LineFileContent(SlideLines(call.args[1])))

\* lines 61-115 on a paragraph with the properties pPr and the children
\* items, in a text body with the list style lstStyle
ExtractParagraphText ==
    Returns("_extract_paragraph_text",
            _extract_paragraph_text(
                Para(ResolveBullet(call.args[1], call.args[2]), call.args[3])))

NextExtract ==
    \/ WriteLineFile
    \/ ExtractParagraphText

SpecExtract == InitExtract /\ [][NextExtract]_vars

(***************************************************************************)
(* The two patch methods and the segment decoding                          *)
(*                                  reintegrator_all.py:32-53, 127-215     *)
(***************************************************************************)
\* paragraphs with and without an anchor: runs, a break, a tab, a formula
\* beside a run, a formula alone, no child, a run of one space, a field
\* beside a run
PatchParas ==
    { Para("", <<R(<<"a">>)>>),
      Para("", <<R(<<"a">>), R(<<"b">>)>>),
      Para("", <<R(<<"a">>), BR, R(<<"b">>)>>),
      Para("", <<R(<<"a">>), TAB, R(<<"b">>)>>),
      Para("", <<M(<<MT(<<"x">>)>>), R(<<"a">>)>>),
      Para("", <<M(<<MT(<<"x">>)>>)>>),
      Para("", <<>>),
      Para("", <<R(<<"SP">>)>>),
      Para("", <<R(<<"a">>), FLD(<<"s">>)>>) }

PatchSlides == {Slide(<<Sp("", ps)>>) : ps \in SeqsUpTo(PatchParas, MaxParas)}

\* line i of an edited LineFile: plain, with a literal \n, with a tab
\* character
PatchStyles == {"plain", "break", "tab"}
PatchLine(style, i) ==
    CASE style = "plain" -> <<"z", Digit(i)>>
      [] style = "break" -> <<"z", "BSL", "n", Digit(i)>>
      [] OTHER -> <<"z", "TAB", Digit(i)>>
PatchLines == {[i \in 1..k |-> PatchLine(style, i)] :
                  k \in 0..(2 * MaxParas + 1), style \in PatchStyles}

\* the lines given to _split_keep_seps
SegChars == {"a", "BSL", "n", "t", "LF", "TAB"}
SegLines == SeqsUpTo(SegChars, MaxLineLen)

InitPatch ==
    \/ \E slide \in PatchSlides, lines \in PatchLines,
          fn \in {"_patch_slide_paragraphs", "_patch_slide_runs"} :
            Calling(fn, <<slide, lines>>)
    \/ \E line \in SegLines,
          fn \in {"_split_keep_seps", "_replace_single_t_with_segments"} :
            Calling(fn, <<line>>)

PatchParagraphs ==
    Returns("_patch_slide_paragraphs",
            _patch_slide_paragraphs(call.args[1], call.args[2]))

PatchRuns ==
    Returns("_patch_slide_runs", _patch_slide_runs(call.args[1], call.args[2]))

SplitKeepSeps ==
    Returns("_split_keep_seps", _split_keep_seps(call.args[1]))

ReplaceSingleT ==
    Returns("_replace_single_t_with_segments",
            _replace_single_t_with_segments(call.args[1]))

NextPatch ==
    \/ PatchParagraphs
    \/ PatchRuns
    \/ SplitKeepSeps
    \/ ReplaceSingleT

SpecPatch == InitPatch /\ [][NextPatch]_vars

(***************************************************************************)
(* translate_text_files                    translator_interface.py:45-147  *)
(* apply_glossary_cleanup_with_source                  cleanup.py:162-195  *)
(*                                                                         *)
(* Characters of the lines: "a", "g", "x", "y" letters; "1" a digit; "SL"  *)
(* a slash; "DOT", "c", "o", "m" for the ending .com; "WORD301" a word of  *)
(* 301 letters; "BOILER" a sentence the normalization rules delete         *)
(* (cleanup.py:109-111).                                                   *)
(***************************************************************************)
Whitespace == {"SP", "TAB", "LF"}

\* str.strip()
RECURSIVE lstrip(_)
lstrip(s) == IF s # <<>> /\ Head(s) \in Whitespace THEN lstrip(Tail(s)) ELSE s

RECURSIVE rstrip(_)
rstrip(s) ==
    IF s # <<>> /\ s[Len(s)] \in Whitespace THEN rstrip(SubSeq(s, 1, Len(s) - 1)) ELSE s

strip(s) == rstrip(lstrip(s))

\* str.split(): the words between runs of whitespace
RECURSIVE WordsFrom(_, _)
WordsFrom(s, buf) ==
    IF s = <<>> THEN (IF buf = <<>> THEN <<>> ELSE <<buf>>)
    ELSE IF Head(s) \in Whitespace
    THEN (IF buf = <<>> THEN <<>> ELSE <<buf>>) \o WordsFrom(Tail(s), <<>>)
    ELSE WordsFrom(Tail(s), Append(buf, Head(s)))

\* sep.join(parts)
RECURSIVE Join(_, _)
Join(parts, sep) ==
    IF parts = <<>> THEN <<>>
    ELSE IF Len(parts) = 1 THEN parts[1]
    ELSE parts[1] \o sep \o Join(Tail(parts), sep)

\* s.split("\\n"): the parts between the literal two-character \n
RECURSIVE SplitLiteralN(_, _)
SplitLiteralN(s, buf) ==
    IF s = <<>> THEN <<buf>>
    ELSE IF Len(s) >= 2 /\ s[1] = "BSL" /\ s[2] = "n"
    THEN <<buf>> \o SplitLiteralN(Tail(Tail(s)), <<>>)
    ELSE SplitLiteralN(Tail(s), Append(buf, Head(s)))

\* c.isalpha(), and len() with the long word counted letter by letter
isalpha(c) == c \in {"a", "g", "x", "y", "c", "o", "m", "n", "t", "z", "WORD301", "BOILER"}
RECURSIVE TextLen(_)
TextLen(s) ==
    IF s = <<>> THEN 0
    ELSE (IF Head(s) = "WORD301" THEN 301 ELSE 1) + TextLen(Tail(s))

RECURSIVE CountOf(_, _)
CountOf(s, c) ==
    IF s = <<>> THEN 0 ELSE (IF Head(s) = c THEN 1 ELSE 0) + CountOf(Tail(s), c)

endswith_com(s) ==
    Len(s) >= 4 /\ SubSeq(s, Len(s) - 3, Len(s)) = <<"DOT", "c", "o", "m">>

\* translator_interface.py:91-96, the lines that are not translated
NotTranslated(clean) ==
    \/ clean = <<>>
    \/ ~ \E i \in 1..Len(clean) : isalpha(clean[i])
    \/ TextLen(clean) > 300
    \/ (CountOf(clean, "SL") >= 3 /\ ~ endswith_com(clean))

\* cleanup.py:29-50: trim, collapse the whitespace of every part between
\* literal \n; the quote and colon replacements act on characters the
\* lines of the model do not hold
_light_line_cleanup(s) ==
    LET parts == SplitLiteralN(strip(s), <<>>) IN
    Join([i \in 1..Len(parts) |-> Join(WordsFrom(parts[i], <<>>), <<"SP">>)],
         <<"BSL", "n">>)

\* cleanup.py:117-126: the rules (lines 94-114) delete a boilerplate
\* sentence that is the whole line; whitespace runs collapse, the line is
\* trimmed
_apply_normalizations(line) ==
    LET out == IF line = <<"BOILER">> THEN <<>> ELSE line IN
    Join(WordsFrom(out, <<>>), <<"SP">>)

\* cleanup.py:162-195; term_map is a function from source keys to expansions
apply_glossary_cleanup_with_source(src_lines, out_lines, term_map) ==
    LET n == IF Len(src_lines) > Len(out_lines) THEN Len(src_lines) ELSE Len(out_lines)
    IN [i \in 1..n |->
          LET src == IF i <= Len(src_lines) THEN src_lines[i] ELSE <<>>
              out == IF i <= Len(out_lines) THEN out_lines[i] ELSE <<>>
              src_key == strip(_light_line_cleanup(src))
              out_clean == IF src_key # <<>> /\ src_key \in DOMAIN term_map
                           THEN src_key \o <<"COL", "SP">> \o term_map[src_key]
                           ELSE _light_line_cleanup(out)
          IN _apply_normalizations(out_clean)]

\* translator_interface.py:87-116 for one line; outcome is what
\* translator.translate does for it: "fail" when it raises, else the text
\* it returns
TranslateLine(line, outcome) ==
    LET clean == strip(line) IN
    IF NotTranslated(clean) THEN <<>>
    ELSE IF outcome = <<"fail">> THEN <<>>
    ELSE strip(outcome)

\* the source files, the term maps and the outcomes of the translator
SrcLineLib ==
    { <<>>, <<"SP">>, <<"1">>, <<"a">>, <<"g">>, <<"WORD301">>,
      <<"a", "SL", "SL", "SL">> }
SrcFiles == {JoinLF(ls) : ls \in SeqsUpTo(SrcLineLib, MaxSrcLines)}
TermMaps == {[k \in {} |-> <<>>], [k \in {<<"g">>} |-> <<"x">>]}
Outcomes == {<<"fail">>, <<>>, <<"x", "SP", "SP", "y">>, <<"BOILER">>}

InitTranslate ==
    \E src \in SrcFiles, term_map \in TermMaps :
        Calling("translate_text_files", <<src, term_map>>)

\* lines 68-73: the translator cannot be made; nothing is written
TranslatorInitFails ==
    Returns("translate_text_files", [written |-> FALSE, content |-> <<>>, failed |-> {}])

\* lines 81-142 for one file: its lines are read, each is translated or
\* left empty, the list is cleaned and written joined by line feeds
TranslateFile ==
    \E outcome \in [1..Len(splitlines(call.args[1])) -> Outcomes] :
        LET src_lines == splitlines(call.args[1])
            out_lines == [i \in 1..Len(src_lines) |->
                            TranslateLine(src_lines[i], outcome[i])]
            cleaned == apply_glossary_cleanup_with_source(src_lines, out_lines,
                                                           call.args[2])
        IN Returns("translate_text_files",
                   [written |-> TRUE,
                    content |-> JoinLF(cleaned),
                    failed |-> {i \in 1..Len(src_lines) : outcome[i] = <<"fail">>}])

NextTranslate ==
    \/ TranslatorInitFails
    \/ TranslateFile

SpecTranslate == InitTranslate /\ [][NextTranslate]_vars

(***************************************************************************)
(* Properties.                                                             *)
(***************************************************************************)
\* the number of positions of s holding the character c
RECURSIVE Occurrences(_, _)
Occurrences(s, c) ==
    IF s = <<>> THEN 0
    ELSE (IF Head(s) = c THEN 1 ELSE 0) + Occurrences(Tail(s), c)

\* the number of positions of s where the two characters c, d follow
RECURSIVE Pairs(_, _, _)
Pairs(s, c, d) ==
    IF Len(s) < 2 THEN 0
    ELSE (IF s[1] = c /\ s[2] = d THEN 1 ELSE 0) + Pairs(Tail(s), c, d)

\* the elements of kind k at or below e, and the characters c in the a:t
\* at or below e
RECURSIVE CountKind(_, _)
CountKind(e, k) ==
    (IF e.k = k THEN 1 ELSE 0)
    + SumSeq([i \in 1..Len(e.ch) |-> CountKind(e.ch[i], k)])

RECURSIVE CountChar(_, _)
CountChar(e, c) ==
    (IF e.k = "t" THEN Occurrences(e.s, c) ELSE 0)
    + SumSeq([i \in 1..Len(e.ch) |-> CountChar(e.ch[i], c)])

\* the breaks and the tabs of the paragraphs of a one-shape slide
BreaksIn(slide) ==
    LET ps == slide.spTree[1].paras IN
    SumSeq([i \in 1..Len(ps) |->
        SumSeq([j \in 1..Len(ps[i].items) |->
            CountKind(ps[i].items[j], "br") + CountChar(ps[i].items[j], "LF")])])

TabsIn(slide) ==
    LET ps == slide.spTree[1].paras IN
    SumSeq([i \in 1..Len(ps) |->
        SumSeq([j \in 1..Len(ps[i].items) |->
            CountKind(ps[i].items[j], "tab") + CountChar(ps[i].items[j], "TAB")])])

Range(f) == {f[x] : x \in DOMAIN f}

\* the record logged for the patch of slide i (line 262), when there is one
Patched(i) == {e \in Range(log) : e.kind = "INFO_slide" /\ e.slide = i}
TruncWarnings(i) == {e \in Range(log) : e.kind = "WARN_truncating" /\ e.slide = i}

\* the paragraphs of a slide that lie in a date, slide-number, footer or
\* header placeholder shape
InSkippedShape(slide, loc) ==
    LET node == NodeAt(slide.spTree, loc.path) IN
    node.tag = "sp" /\ node.ph \in {"dt", "sldNum", "ftr", "hdr"}

\* the formula subtrees of a paragraph, in order
Formulas(p) == SelectSeq(p.items, LAMBDA e : e.k = "m")

\* C1: Round trip.  When a slide has been extracted and reintegrated with
\* the LineFile as extraction wrote it, the slide in the output container
\* has as many paragraphs as the original and every paragraph has the
\* visible plain text outside math it had.
C1_RoundTrip ==
    (pc = "done" /\ edited = {}) =>
        \A i \in DOMAIN pptx_in :
            pptx_in[i].ok =>
                LET before == AllParas(pptx_in[i])
                    after == AllParas(target.slides[i])
                IN /\ Len(after) = Len(before)
                   /\ \A k \in 1..Len(before) :
                        _visible_plaintext_outside_math(ParaAt(target.slides[i], after[k]))
                        = _visible_plaintext_outside_math(ParaAt(pptx_in[i], before[k]))

\* C2: Method selection.  _choose_method returns "runs" exactly when
\* n_lines > 0, 0.90 <= n_runs/n_lines <= 1.15 and |n_runs - n_lines| <= 2,
\* and "paragraphs" otherwise; (10, 11) gives "runs", (10, 3) and every
\* (n_runs, 0) give "paragraphs".
C2_ChooseMethod ==
    (pc = "returned" /\ call.fn = "_choose_method") =>
        LET n_runs == call.args[1]
            n_lines == call.args[2]
            near == /\ n_lines > 0
                    /\ 90 * n_lines <= 100 * n_runs
                    /\ 100 * n_runs <= 115 * n_lines
                    /\ n_runs - n_lines <= 2
                    /\ n_lines - n_runs <= 2
        IN /\ call.ret = (IF near THEN "runs" ELSE "paragraphs")
           /\ (n_lines = 0 => call.ret = "paragraphs")
           /\ (call.args = <<10, 11>> => call.ret = "runs")
           /\ (call.args = <<10, 3>> => call.ret = "paragraphs")

C2_Witness ==
    pc = "returned" /\ call.args = <<10, 11>> /\ call.ret = "runs"

\* C3 as claimed: a date, slide-number, footer or header placeholder shape
\* contributes no line to the extracted LineFile, and none of its paragraphs
\* is changed by reintegration, whichever method patched the slide.
C3_PlaceholderNeverPatched ==
    /\ \A i \in DOMAIN txt_dir \ edited :
          \A k \in 1..Len(txt_dir[i]) : txt_dir[i][k] \notin PlaceholderChars
    /\ pc = "done" =>
          \A i \in DOMAIN pptx_in :
              pptx_in[i].ok =>
                  \A loc \in Range(AllParas(pptx_in[i])) :
                      InSkippedShape(pptx_in[i], loc) =>
                          ParaAt(target.slides[i], loc) = ParaAt(pptx_in[i], loc)

\* C3 as amended: such a shape contributes no line to the extracted
\* LineFile (the number of lines logged is the number of paragraphs outside
\* such shapes, and no character of such a shape is in the file), and none
\* of its paragraphs is changed when the slide is patched paragraph-level.
C3_PlaceholderExcluded ==
    /\ \A i \in DOMAIN txt_dir \ edited :
          \A k \in 1..Len(txt_dir[i]) : txt_dir[i][k] \notin PlaceholderChars
    /\ \A e \in Range(log) :
          e.kind = "INFO_paragraphs" =>
              e.n = Cardinality({loc \in Range(AllParas(pptx_in[e.slide])) :
                                    ~InSkippedShape(pptx_in[e.slide], loc)})
    /\ pc = "done" =>
          \A i \in DOMAIN pptx_in :
              (pptx_in[i].ok /\ \E e \in Patched(i) : e.method = "paragraphs") =>
                  \A loc \in Range(AllParas(pptx_in[i])) :
                      InSkippedShape(pptx_in[i], loc) =>
                          ParaAt(target.slides[i], loc) = ParaAt(pptx_in[i], loc)

\* a slide with a placeholder of a skipped type and a shape with text has
\* been extracted, and patched paragraph-level with some paragraph rewritten
C3_Witness ==
    /\ pc = "done"
    /\ 1 \in DOMAIN txt_dir
    /\ \E e \in Patched(1) : e.method = "paragraphs" /\ e.wrote > 0
    /\ \E loc \in Range(AllParas(pptx_in[1])) : InSkippedShape(pptx_in[1], loc)
    /\ target.slides[1] # pptx_in[1]

\* C4 as claimed: after reintegration every formula subtree of every
\* paragraph is what it was, whichever method patched the slide.
C4_MathPreserved ==
    pc = "done" =>
        \A i \in DOMAIN pptx_in :
            pptx_in[i].ok =>
                \A loc \in Range(AllParas(pptx_in[i])) :
                    Formulas(ParaAt(target.slides[i], loc))
                    = Formulas(ParaAt(pptx_in[i], loc))

\* the file at pptx_out before the rewrite
PreOperation == IF in_place THEN Archive(pptx_in) ELSE NoFile

\* C5: Atomic rewrite.  In every state the file at pptx_out is a complete
\* archive or the file it was before the operation, and a failure while
\* repackaging leaves it what it was before the operation.
C5_AtomicRewrite ==
    /\ target.st = "complete" \/ target = PreOperation
    /\ (pc = "reint_raised" /\ raised = "OSError") => target = PreOperation

\* C6: One paragraph, one line.  The LineFile extraction wrote for a slide,
\* read back by _read_lines, has one line per retained paragraph, line k
\* being the text of paragraph k (its line breaks as the literal \n).
C6_OneLinePerParagraph ==
    \A i \in DOMAIN txt_dir \ edited :
        LET paras == SlideLines(pptx_in[i]) IN
        _read_lines(txt_dir, i) = [k \in 1..Len(paras) |-> ReplaceLF(paras[k])]

\* C7: Same paragraph sequence.  For every slide extracted, the paragraphs
\* _collect_paragraphs lists are those _iter_all_paragraphs_from_slide_xml
\* emitted, in the same order.
C7_SameParagraphSequence ==
    \A i \in Range(saved_files) :
        _collect_paragraphs(pptx_in[i]) = _iter_all_paragraphs_from_slide_xml(pptx_in[i])

\* the slides at the indices 1, 2, ... up to the first absent index
Probed == {i \in DOMAIN pptx_in : \A j \in 1..i : j \in DOMAIN pptx_in}

\* C8: Reintegration isolates a malformed slide.  A slide part that does
\* not parse does not end the operation: reintegration ends with the output
\* container written, and the count returned is the number of slides it
\* patched.
C8_ReintegrationIsolatesMalformed ==
    (pc = "done" \/ (pc = "reint_raised" /\ raised = "XMLSyntaxError")) =>
        /\ target.st = "complete"
        /\ \A i \in DOMAIN pptx_in :
              (pptx_in[i].ok /\ _read_lines(txt_dir, i) # <<>>) => Patched(i) # {}
        /\ modified = Cardinality({i \in DOMAIN pptx_in :
                                     \E e \in Patched(i) : e.wrote > 0})

\* C9: Extraction isolates a malformed slide.  When extract_slide_text has
\* ended, every slide of the container that parses (before and after one
\* that does not) has its LineFile written and recorded.
C9_ExtractionIsolatesMalformed ==
    pc \in {"extracted", "extract_raised"} =>
        \A i \in Probed :
            pptx_in[i].ok => i \in DOMAIN txt_dir /\ i \in Range(saved_files)

\* C10 as claimed: for a slide patched with k lines and n structural units,
\* k < n is reported as a pad of n - k and k > n as k - n dropped lines.
C10_MismatchReportedBothWays ==
    \A e \in Range(log) :
        e.kind = "INFO_slide" =>
            /\ e.lines < e.wrote =>
                  \E w \in Range(log) :
                      w.kind = "WARN_padding" /\ w.slide = e.slide /\ w.n = e.wrote - e.lines
            /\ e.lines > e.wrote =>
                  \E w \in TruncWarnings(e.slide) : w.n = e.lines - e.wrote

\* C10 as amended: k > n >= 1 is reported by one warning giving k - n
\* dropped lines; k <= n is reported by no warning (padding is silent); a
\* slide patched paragraph-level with n = 0 is reported as having no
\* paragraphs; and no line count ends the operation: only a part that does
\* not parse raises XMLSyntaxError.
C10_TruncationReported ==
    /\ \A e \in Range(log) :
          e.kind = "INFO_slide" =>
              /\ (e.lines > e.wrote /\ e.wrote >= 1) =>
                    TruncWarnings(e.slide) =
                        {[kind |-> "WARN_truncating", slide |-> e.slide,
                          method |-> e.method, n |-> e.lines - e.wrote]}
              /\ (e.lines <= e.wrote \/ e.wrote = 0) => TruncWarnings(e.slide) = {}
              /\ e.wrote = 0 =>
                    \E w \in Range(log) :
                        w.kind = "INFO_no_paragraphs" /\ w.slide = e.slide
    /\ \A w \in Range(log) : w.kind \in {"WARN_truncating", "INFO_no_paragraphs"} =>
          \E e \in Patched(w.slide) : TRUE
    /\ (pc = "reint_raised" /\ raised = "XMLSyntaxError") => ~pptx_in[Head(todo)].ok

\* 7 lines were supplied for a slide of 5 paragraphs: 2 dropped
C10_Witness ==
    /\ pc = "done"
    /\ \E e \in Patched(1) : e.lines = 7 /\ e.wrote = 5 /\ e.method = "paragraphs"
    /\ \E w \in TruncWarnings(1) : w.n = 2

\* the slides the loop of reintegrate_translated_slide_text skipped
Skipped(i) == {e \in Range(log) : e.kind = "SKIP" /\ e.slide = i}

\* C11: A slide whose LineFile is missing or empty is skipped.  When
\* reintegrate_translated_slide_text has returned, every such slide has its
\* skip reported, has no patch reported, has in the output container the
\* part it had in the input, and is not counted; and every later slide that
\* has lines has been visited.
C11_SkipMissingOrEmpty ==
    pc = "done" =>
        /\ \A i \in DOMAIN pptx_in :
              _read_lines(txt_dir, i) = <<>> =>
                  /\ Skipped(i) # {}
                  /\ Patched(i) = {}
                  /\ target.slides[i] = pptx_in[i]
        /\ \A i \in DOMAIN pptx_in :
              _read_lines(txt_dir, i) # <<>> => Patched(i) # {} /\ Skipped(i) = {}
        /\ modified <= Cardinality({i \in DOMAIN pptx_in : Skipped(i) = {}})

\* a slide without LineFile was skipped and a later slide was patched
C11_Witness ==
    /\ pc = "done"
    /\ \E i, j \in DOMAIN pptx_in :
          /\ i < j
          /\ i \notin DOMAIN txt_dir
          /\ pptx_in[i].ok
          /\ Skipped(i) # {}
          /\ \E e \in Patched(j) : e.wrote > 0
          /\ modified = 1

\* the slides whose shape tree yields no structural paragraph
NoStructuralParagraph(i) == pptx_in[i].ok /\ _collect_paragraphs(pptx_in[i]) = <<>>

\* C12 as claimed: the count returned is the number of slides patched, and
\* a slide with zero structural paragraphs is never rewritten nor counted.
C12_ZeroParagraphsNeverPatched ==
    pc = "done" =>
        \A i \in DOMAIN pptx_in :
            NoStructuralParagraph(i) =>
                /\ target.slides[i] = pptx_in[i]
                /\ \A e \in Patched(i) : e.wrote = 0

\* C12 as amended: the count returned is the number of slides for which a
\* patch wrote at least one unit; a skipped slide is not counted; every slide
\* whose part differs from the input is counted; and a slide with zero
\* structural paragraphs is a reported no-op, not rewritten and not counted,
\* whenever paragraph-level patching is selected for it.
C12_CountsPatchedSlides ==
    pc = "done" =>
        /\ modified = Cardinality({i \in DOMAIN pptx_in :
                                     \E e \in Patched(i) : e.wrote > 0})
        /\ \A i \in DOMAIN pptx_in :
              /\ Skipped(i) # {} => Patched(i) = {}
              /\ target.slides[i] # pptx_in[i] => \E e \in Patched(i) : e.wrote > 0
              /\ \A e \in Patched(i) :
                    (NoStructuralParagraph(i) /\ e.method = "paragraphs") =>
                        /\ e.wrote = 0
                        /\ target.slides[i] = pptx_in[i]
                        /\ \E w \in Range(log) :
                              w.kind = "INFO_no_paragraphs" /\ w.slide = i

\* lines were supplied for a slide without structural paragraph, which
\* paragraph-level patching left alone and the count does not include
C12_Witness ==
    /\ pc = "done"
    /\ modified = 0
    /\ \E i \in DOMAIN pptx_in :
          /\ NoStructuralParagraph(i)
          /\ _read_lines(txt_dir, i) # <<>>
          /\ \E e \in Patched(i) : e.method = "paragraphs" /\ e.wrote = 0

\* the slides in the order extract_slide_text wrote their LineFiles, and in
\* the order the loop of reintegrate_translated_slide_text visited them
ExtractionOrder == SelectSeq(log, LAMBDA e : e.kind = "INFO_paragraphs")
VisitOrder == SelectSeq(log, LAMBDA e : e.kind \in {"SKIP", "INFO_slide"})
Ascending(q) == \A a, b \in 1..Len(q) : a < b => q[a].slide < q[b].slide

\* C13: Slides are processed in ascending numeric order of their index, in
\* extraction and in reintegration: whenever slide i was processed before
\* slide j, i < j.
C13_AscendingNumericOrder == Ascending(ExtractionOrder) /\ Ascending(VisitOrder)

\* an audio operation has just returned
AudioExtracted == pc = "audio_returned" /\ log # <<>> /\ log[1].kind = "INFO_extracted"
AudioReintegrated ==
    pc = "audio_returned" /\ log # <<>> /\ log[Len(log)].kind = "DONE_audio"

\* what text reintegration leaves at pptx_out when it has returned
TextRepackKeepsParts ==
    pc = "done" =>
        /\ target.st = "complete"
        /\ DOMAIN target.slides = DOMAIN pptx_in
        /\ target_pkg = pkg_in
        /\ \A i \in DOMAIN pptx_in :
              (\A e \in Patched(i) : e.wrote = 0) => target.slides[i] = pptx_in[i]

\* what the move of .tmp.pptx over the container changes
AudioRepackKeepsParts ==
    pc = "audio_move" =>
        /\ target'.st = "complete"
        /\ target'.slides = target.slides
        /\ DOMAIN target_pkg'.media = DOMAIN target_pkg.media
        /\ \A n \in DOMAIN target_pkg.media :
              ~(n.ext = "m4a" /\ n \in DOMAIN tts_dir) =>
                  target_pkg'.media[n] = target_pkg.media[n]
        /\ target_pkg'.ct.st = target_pkg.ct.st
        /\ (target_pkg.ct.st # "ok"
               \/ \E i \in 1..Len(target_pkg.ct.defaults) :
                     target_pkg.ct.defaults[i] = "m4a")
              => target_pkg'.ct = target_pkg.ct

\* C14: Repackaging writes back every part.  After text reintegration and
\* after audio reintegration the container holds the parts the input held,
\* none dropped and none added, and every part but the patched slides, the
\* overwritten media and the patched manifest has the content it had.
C14_RepackagingKeepsParts == []TextRepackKeepsParts /\ [][AudioRepackKeepsParts]_vars

\* text and audio were reintegrated: the slide is patched, media3.m4a is
\* replaced, media2.mp3 is as it was
C14_Witness ==
    /\ AudioReintegrated
    /\ target.slides[1] # pptx_in[1]
    /\ target_pkg.media[m3] = "tts"
    /\ target_pkg.media[mp3] = "orig"
    /\ DOMAIN target_pkg.media = DOMAIN pkg_in.media

\* C15: Invalid input fails before any side effect.  A step in which an
\* entry point raises for a path that is missing, has the wrong suffix, is
\* empty or is no zip container leaves the output directory, the LineFiles
\* and every container file as they were.
C15_InvalidInputNoSideEffect ==
    [][(pc \in AudioReady /\ pc' = "audio_raised"
          /\ raised' \in {"ValueError", "BadZipFile", "FileNotFoundError"})
        => UNCHANGED <<media_dir, txt_dir, target, target_pkg, new_pptx>>]_vars

\* C16: Media basename stability.  When extract_audio_from_pptx has
\* returned, the names it wrote and returned are the names of the audio
\* parts, each file holding the content of the part of that name; and the
\* container at any time holds the media part names the input held.
C16_BasenameStability ==
    /\ target.st = "complete" => DOMAIN target_pkg.media = DOMAIN pkg_in.media
    /\ AudioExtracted =>
          LET parts == {n \in DOMAIN target_pkg.media : IsAudio(n)} IN
          /\ Range(extracted_files) = parts
          /\ Len(extracted_files) = Cardinality(parts)
          /\ \A n \in parts :
                n \in DOMAIN media_dir.files /\ media_dir.files[n] = target_pkg.media[n]

\* media3.m4a and media17.m4a were extracted after a reintegration that
\* replaced media3.m4a
C16_Witness ==
    /\ AudioExtracted
    /\ Range(extracted_files) = {m3, m17}
    /\ media_dir.files[m3] = "tts"
    /\ media_dir.files[m17] = "orig"

C18_CountsEveryMatchingName ==
    AudioReintegrated =>
        replaced = Cardinality(DOMAIN tts_dir \cap DOMAIN target_pkg.media)

\* C18 as amended: the replacements are the files *.m4a of tts_dir.  One
\* whose name is no media part is not applied, adds no part and raises
\* nothing; the count returned is the number of files *.m4a whose name is
\* the name of a media part, and each of those parts holds the replacement;
\* a file of another extension is ignored even when a part has its name.
C18_CountsMatchingM4a ==
    AudioReintegrated =>
        LET applied == {n \in DOMAIN tts_dir :
                           n.ext = "m4a" /\ n \in DOMAIN target_pkg.media} IN
        /\ raised = ""
        /\ replaced = Cardinality(applied)
        /\ DOMAIN target_pkg.media = DOMAIN pkg_in.media
        /\ \A n \in applied : target_pkg.media[n] = tts_dir[n]
        /\ \A n \in DOMAIN target_pkg.media \ applied : target_pkg.media[n] = pkg_in.media[n]

\* media99.m4a had no counterpart and media2.mp3 is no m4a file: one
\* replacement applied
C18_Witness ==
    /\ AudioReintegrated
    /\ Name("media99", "m4a") \in DOMAIN tts_dir
    /\ mp3 \in DOMAIN tts_dir /\ mp3 \in DOMAIN target_pkg.media
    /\ replaced = 1
    /\ target_pkg.media[m3] = "tts"

\* the declarations of a manifest for the extension m4a
Declared(ct) == SelectSeq(ct.defaults, LAMBDA x : x = "m4a")
Undeclared(ct) == SelectSeq(ct.defaults, LAMBDA x : x # "m4a")

\* C19: Manifest patching.  When reintegrate_audio_to_pptx has returned, a
\* manifest that parses declares m4a once, its other declarations being as
\* they were; a manifest that does not parse is as it was, the failure is in
\* the log, and the replacements were copied and the container repackaged
\* all the same.
C19_ManifestPatched ==
    AudioReintegrated =>
        /\ target.st = "complete"
        /\ target_pkg.ct.st = pkg_in.ct.st
        /\ target_pkg.ct.st = "ok" =>
              /\ Len(Declared(target_pkg.ct)) = 1
              /\ Undeclared(target_pkg.ct) = Undeclared(pkg_in.ct)
              /\ \A e \in Range(log) : e.kind # "ERROR_content_types"
        /\ target_pkg.ct.st # "ok" =>
              /\ target_pkg.ct = pkg_in.ct
              /\ \E e \in Range(log) : e.kind = "ERROR_content_types"
        /\ \A n \in DOMAIN tts_dir :
              (n.ext = "m4a" /\ n \in DOMAIN target_pkg.media) =>
                  target_pkg.media[n] = tts_dir[n]

\* the manifest did not declare m4a, a replacement was applied, and the
\* manifest now declares it
C19_Witness ==
    /\ AudioReintegrated
    /\ pkg_in.ct = Manifest("ok", <<"xml">>)
    /\ target_pkg.ct = Manifest("ok", <<"xml", "m4a">>)
    /\ replaced = 1

\* C20: Working files are discarded on every exit path.  When
\* reintegrate_translated_slide_text or reintegrate_audio_to_pptx has ended,
\* by returning or by raising, its working tree does not exist.
C20_WorkingTreeDiscarded ==
    pc \in {"done", "reint_raised", "audio_returned", "audio_raised"} =>
        tmp_pkg = NoTree /\ tmpdir = EmptyMap

\* the copy of a replacement failed after the text had been reintegrated
C20_Witness ==
    /\ pc = "audio_raised"
    /\ raised = "OSError"
    /\ new_pptx = "absent"
    /\ replaced = 0
    /\ target.slides[1] # pptx_in[1]
    /\ tmp_pkg = NoTree

C22_BulletResolution ==
    Returned("_extract_paragraph_text") =>
        LET pPr == call.args[1]
            lstStyle == call.args[2]
            body == ParaBody(Para("", call.args[3]))
            level == IF pPr.present /\ pPr.lvl.k = "int" THEN pPr.lvl.v ELSE 0
            slot == IF level + 1 < 1 THEN 1 ELSE IF level + 1 > 9 THEN 9 ELSE level + 1
            bullet == IF pPr.present /\ pPr.buChar # "" THEN pPr.buChar
                      ELSE IF lstStyle.present THEN lstStyle.lvl[slot]
                      ELSE ""
            space == IF body # <<>> /\ body[1] \in NoSpaceAfterBullet
                     THEN <<>> ELSE <<"SP">>
        IN call.ret = (IF bullet = "" THEN body ELSE <<bullet>> \o space \o body)

\* a bullet inherited from the last level of the list style, for a level
\* beyond it, before a body that takes no space
C22_Witness ==
    /\ Returned("_extract_paragraph_text")
    /\ call.args[1].present /\ call.args[1].buChar = ""
    /\ call.args[1].lvl.k = "int" /\ call.args[1].lvl.v > 8
    /\ call.ret = <<"b9", "COL", "a">>

\* C23: extract_slide_text run again on the same container leaves the
\* LineFiles the first run left, and reintegrate_text_and_audio run again
\* with the same container, LineFiles, replacement audio and output path
\* leaves at pptx_out the slide parts, media parts and manifest the first
\* run left.
C23_SafeRerun ==
    /\ (pc \in {"extracted", "extract_raised"} /\ edited = {} /\ history.lines # <<>>)
            => txt_dir = history.lines[1]
    /\ (pc = "audio_returned" /\ log # <<>> /\ log[Len(log)].kind = "DONE_audio"
            /\ history.outs # <<>> /\ history.outs[1].txt = txt_dir)
            => /\ target.st = "complete"
               /\ target.slides = history.outs[1].slides
               /\ target_pkg = history.outs[1].pkg

\* both operations have run twice; the second run of
\* reintegrate_text_and_audio patched the slide and replaced a media part
C23_Witness ==
    /\ pc = "audio_returned" /\ log # <<>> /\ log[Len(log)].kind = "DONE_audio"
    /\ history.lines # <<>>
    /\ history.outs # <<>> /\ history.outs[1].txt = txt_dir
    /\ edited # {}
    /\ target.slides # pptx_in
    /\ replaced > 0

\* C24: the file translate_text_files writes has as many lines as its
\* source; a blank, non-alphabetic or over-long source line and a line whose
\* translation fails is an empty line at the same index of the output.
C24_LineAlignment ==
    (Returned("translate_text_files") /\ call.ret.written) =>
        LET src_lines == splitlines(call.args[1])
            out_lines == splitlines(call.ret.content)
        IN /\ Len(out_lines) = Len(src_lines)
           /\ \A i \in 1..Len(src_lines) :
                 (\/ ~ StripNonEmpty(src_lines[i])
                  \/ src_lines[i] = <<"1">>
                  \/ src_lines[i] = <<"WORD301">>
                  \/ i \in call.ret.failed)
                 => (i <= Len(out_lines) /\ out_lines[i] = <<>>)

\* the texts of the a:t at or below an element, in document order
RECURSIVE TextsOf(_)
TextsOf(e) ==
    IF e.k = "t" THEN <<e.s>>
    ELSE Flatten([i \in 1..Len(e.ch) |-> TextsOf(e.ch[i])])

ParaTexts(p) == Flatten([i \in 1..Len(p.items) |-> TextsOf(p.items[i])])

\* the texts of the a:t of a one-shape slide, in document order
SlideTexts(slide) ==
    LET ps == slide.spTree[1].paras IN
    Flatten([i \in 1..Len(ps) |-> ParaTexts(ps[i])])

DigitsOf(texts) ==
    SelectSeq(Flatten(texts),
              LAMBDA c : c \in {"0", "1", "2", "3", "4", "5", "6", "7", "8", "9"})

\* the paragraph has an anchor: visible text outside any formula
HasAnchor(p) ==
    \E k \in 1..Len(PlainT(p)) :
        \E c \in 1..Len(p.items[PlainT(p)[k][1]].ch[PlainT(p)[k][2]].s) :
            p.items[PlainT(p)[k][1]].ch[PlainT(p)[k][2]].s[c] \notin {"SP", "LF", "TAB"}

\* C25: both patch methods pair unit i with line i; missing lines are empty
\* lines, extra lines are dropped.  Paragraph-level: the anchored paragraph
\* i holds line i whatever the paragraphs before it are.  Run-level: the
\* a:t of the slide, in document order, hold lines 1, 2, ... in order.
C25_PositionalPairing ==
    /\ Returned("_patch_slide_paragraphs") =>
          LET ps == call.args[1].spTree[1].paras
              qs == call.ret.slide.spTree[1].paras
              lines == call.args[2]
          IN /\ Len(qs) = Len(ps)
             /\ \A i \in 1..Len(ps) :
                   HasAnchor(ps[i]) =>
                     LET first == PlainT(ps[i])[1] IN
                     qs[i].items[first[1]].ch[first[2]].s
                        = (IF i <= Len(lines) THEN lines[i] ELSE <<>>)
    /\ Returned("_patch_slide_runs") =>
          LET n == NumRuns(call.args[1])
              k == Len(call.args[2])
              texts == SlideTexts(call.ret.slide)
              paired == IF k < n THEN k ELSE n
          IN /\ DigitsOf(texts) = [i \in 1..paired |-> Digit(i)]
             /\ Cardinality({j \in 1..Len(texts) : texts[j] = <<>>}) = n - paired

\* three lines for a formula-only paragraph and a paragraph with a run: the
\* second paragraph holds line 2
C25_Witness ==
    /\ Returned("_patch_slide_paragraphs")
    /\ call.args[1].spTree[1].paras
          = <<Para("", <<M(<<MT(<<"x">>)>>)>>), Para("", <<R(<<"a">>)>>)>>
    /\ Len(call.args[2]) = 3
    /\ call.ret.slide.spTree[1].paras[2] = Para("", <<RC(<<TP(call.args[2][2])>>)>>)

\* C26: paragraph-level patching leaves a paragraph whose visible plain text
\* outside any formula is empty exactly as it was.
C26_NoAnchorNoChange ==
    Returned("_patch_slide_paragraphs") =>
        LET ps == call.args[1].spTree[1].paras
            qs == call.ret.slide.spTree[1].paras
        IN \A i \in 1..Len(ps) : ~ HasAnchor(ps[i]) => qs[i] = ps[i]

\* a paragraph holding a run of one space was paired with a line and kept
C26_Witness ==
    /\ Returned("_patch_slide_paragraphs")
    /\ Len(call.args[2]) = 2
    /\ Len(call.args[1].spTree[1].paras) = 2
    /\ call.args[1].spTree[1].paras[1] = Para("", <<R(<<"SP">>)>>)
    /\ call.ret.slide.spTree[1].paras[1] = Para("", <<R(<<"SP">>)>>)
    /\ call.ret.slide.spTree[1].paras[2] # call.args[1].spTree[1].paras[2]

\* the text units of a paragraph outside any formula, in document order:
\* the a:t of its runs and of its fields
UnitsOutsideMath(p) ==
    Flatten([i \in 1..Len(p.items) |->
        IF p.items[i].k \in {"r", "fld"}
        THEN SelectSeq(p.items[i].ch, LAMBDA c : c.k = "t")
        ELSE <<>>])

\* the breaks, tabs and formulas among the children of a paragraph
Structure(p) ==
    SelectSeq([i \in 1..Len(p.items) |->
                  IF p.items[i].k = "m" THEN [at |-> i, el |-> p.items[i]]
                  ELSE [at |-> i, el |-> El(p.items[i].k, <<>>, FALSE, <<>>)]],
              LAMBDA x : x.el.k \in {"br", "tab", "m"})

\* C27: after paragraph-level patching of a paragraph with an anchor, its
\* first text unit outside a formula holds the whole paired line and is
\* whitespace-preserving, every other text unit outside a formula is
\* empty, and its breaks, tabs and formulas are where they were.
C27_ParagraphReplacement ==
    Returned("_patch_slide_paragraphs") =>
        LET ps == call.args[1].spTree[1].paras
            qs == call.ret.slide.spTree[1].paras
            lines == call.args[2]
        IN \A i \in 1..Len(ps) :
             HasAnchor(ps[i]) =>
               LET units == UnitsOutsideMath(qs[i]) IN
               /\ units[1].s = (IF i <= Len(lines) THEN lines[i] ELSE <<>>)
               /\ units[1].pres
               /\ \A j \in 2..Len(units) : units[j].s = <<>>
               /\ Structure(qs[i]) = Structure(ps[i])

\* the break and tab tokens of a line, left to right: a backslash followed
\* by n or t, a line feed, a tab character
RECURSIVE Separators(_)
Separators(line) ==
    IF line = <<>> THEN <<>>
    ELSE IF Len(line) >= 2 /\ line[1] = "BSL" /\ line[2] \in {"n", "t"}
    THEN <<IF line[2] = "n" THEN "br" ELSE "tab">> \o Separators(Tail(Tail(line)))
    ELSE IF line[1] \in {"LF", "TAB"}
    THEN <<IF line[1] = "LF" THEN "br" ELSE "tab">> \o Separators(Tail(line))
    ELSE Separators(Tail(line))

\* the line with every line feed and tab character written as its
\* two-character literal
RECURSIVE Literal(_)
Literal(line) ==
    IF line = <<>> THEN <<>>
    ELSE (CASE Head(line) = "LF" -> <<"BSL", "n">>
            [] Head(line) = "TAB" -> <<"BSL", "t">>
            [] OTHER -> <<Head(line)>>)
         \o Literal(Tail(line))

\* the segments joined with their separators
Rejoined(segs) ==
    Flatten([i \in 1..Len(segs) |->
        segs[i].seg \o (CASE segs[i].sep = "\\n" -> <<"BSL", "n">>
                          [] segs[i].sep = "\\t" -> <<"BSL", "t">>
                          [] OTHER -> <<>>)])

\* one segment more than the line has break and tab tokens, the separator
\* of each but the last that of its token, the last without separator
SegmentsMatchTokens(segs, line) ==
    LET seps == Separators(line) IN
    /\ Len(segs) = Len(seps) + 1
    /\ segs[Len(segs)].sep = ""
    /\ \A i \in 1..Len(seps) :
          segs[i].sep = (IF seps[i] = "br" THEN "\\n" ELSE "\\t")

\* one whitespace-preserving text unit per segment, each but the last
\* followed by the break or tab element of its token
UnitsMatchTokens(els, line) ==
    LET seps == Separators(line) IN
    /\ Len(els) = 2 * Len(seps) + 1
    /\ \A j \in 1..Len(els) :
          IF j % 2 = 1 THEN els[j].k = "t" /\ els[j].pres
          ELSE els[j].k = seps[j \div 2] /\ els[j].s = <<>>
    /\ Flatten([j \in 1..Len(els) |->
            CASE els[j].k = "br" -> <<"BSL", "n">>
              [] els[j].k = "tab" -> <<"BSL", "t">>
              [] OTHER -> els[j].s]) = Literal(line)

\* C28 as stated: _split_keep_seps gives one segment more than the line has
\* break and tab tokens, only the last without separator, and the segments
\* joined with their separators are the line; _replace_single_t_with_segments
\* gives one preserving text unit per segment, each followed by the element
\* of its separator.
C28_SegmentDecoding ==
    /\ Returned("_split_keep_seps") =>
          /\ SegmentsMatchTokens(call.ret, call.args[1])
          /\ Rejoined(call.ret) = call.args[1]
    /\ Returned("_replace_single_t_with_segments") =>
          UnitsMatchTokens(call.ret, call.args[1])

\* C28 amended: as stated, but the segments joined with their separators
\* are the line with every line feed and tab character written as its
\* two-character literal.
C28_SegmentDecodingLiteral ==
    /\ Returned("_split_keep_seps") =>
          /\ SegmentsMatchTokens(call.ret, call.args[1])
          /\ Rejoined(call.ret) = Literal(call.args[1])
    /\ Returned("_replace_single_t_with_segments") =>
          UnitsMatchTokens(call.ret, call.args[1])

\* a line with a literal \n and a tab character has been split in three
C28_Witness ==
    /\ Returned("_split_keep_seps")
    /\ call.args[1] = <<"a", "BSL", "n", "TAB">>
    /\ call.ret = <<[seg |-> <<"a">>, sep |-> "\\n"], [seg |-> <<>>, sep |-> "\\t"],
                    [seg |-> <<>>, sep |-> ""]>>

\* the first index whose part is absent
FirstAbsent ==
    CHOOSE n \in 1..(MaxSlideNo + 1) :
        n \notin DOMAIN pptx_in /\ \A j \in 1..(n - 1) : j \in DOMAIN pptx_in

\* while extract_slide_text probes, the index is at most the first absent
\* one and the files recorded are those of the indices before it; when it
\* has returned, the LineFiles are slide1..slidek, k + 1 the first absent
\* index; it raises only at a part that is present
ProbeInv ==
    /\ pc = "extract" =>
          /\ slide_idx \in 1..FirstAbsent
          /\ saved_files = [i \in 1..(slide_idx - 1) |-> i]
    /\ (pc = "extracted" /\ edited = {}) =>
          /\ slide_idx = FirstAbsent
          /\ saved_files = [i \in 1..(FirstAbsent - 1) |-> i]
          /\ DOMAIN txt_dir = 1..(FirstAbsent - 1)
    /\ pc = "extract_raised" => slide_idx \in DOMAIN pptx_in

\* every step of the probing loop ends it or moves to the next index
ProbeStep == pc = "extract" => (pc' # "extract" \/ slide_idx' = slide_idx + 1)

FirstStop ==
    CHOOSE n \in 1..(MaxSlideNo + 1) :
        (n \notin DOMAIN pptx_in \/ ~ pptx_in[n].ok)
        /\ \A j \in 1..(n - 1) : j \in DOMAIN pptx_in /\ pptx_in[j].ok

\* C30: a log sink that raises changes neither the files written nor the
\* value returned: every extraction ends as it does with a sink that never
\* raises.
C30_LoggingNeverInterrupts ==
    /\ pc \in {"extracted", "extract_raised"} =>
          /\ DOMAIN txt_dir = 1..(FirstStop - 1)
          /\ (pc = "extracted") = (FirstStop \notin DOMAIN pptx_in)
    /\ pc \in {"audio_returned", "audio_raised"} =>
          raised \in {"", "ValueError", "BadZipFile"}

=============================================================================
